---- MODULE Spec2Model ----
(***************************************************************************)
(* A model of the Hack toolchain of this repository: the assembler         *)
(* (src/Assembler), the VM translator (src/VirtualMachine) and the Jack    *)
(* compiler (src/Compiler, src/CCompiler).  Text is modelled as TLA+       *)
(* strings; a C string function is modelled by what it does to the text.   *)
(***************************************************************************)
EXTENDS Integers, Sequences, FiniteSets, TLC

(***************************************************************************)
(* C library helpers used by the three programs.                           *)
(***************************************************************************)

\* The absent string (a NULL char*).  No text that went through
\* removeWhitespace can equal it.
NULL == " "

Ch(s, i) == SubSeq(s, i, i)

Min(a, b) == IF a < b THEN a ELSE b

\* strchr: index of the first occurrence of the character c in s, 0 if none.
strchr(s, c) ==
    IF \E i \in 1..Len(s) : Ch(s, i) = c
    THEN CHOOSE i \in 1..Len(s) : Ch(s, i) = c /\ \A j \in 1..(i - 1) : Ch(s, j) # c
    ELSE 0

\* strstr: index of the first occurrence of the text t in s, 0 if none.
strstr(s, t) ==
    IF \E i \in 1..(Len(s) - Len(t) + 1) : SubSeq(s, i, i + Len(t) - 1) = t
    THEN CHOOSE i \in 1..(Len(s) - Len(t) + 1) :
            /\ SubSeq(s, i, i + Len(t) - 1) = t
            /\ \A j \in 1..(i - 1) : SubSeq(s, j, j + Len(t) - 1) # t
    ELSE 0

isspace(c) == c \in {" ", "\t", "\n", "\r", "\f"}

IsDigit(c) == \E d \in 0..9 : Ch("0123456789", d + 1) = c

DigitVal(c) == CHOOSE d \in 0..9 : Ch("0123456789", d + 1) = c

\* The decimal digits at the head of s, accumulated as strtol does; the value
\* is kept modulo 2^32 as the 16-bit halves <<high, low>> of an int.
RECURSIVE DigitsValue(_, _)
DigitsValue(s, acc) ==
    IF s = "" \/ ~IsDigit(Head(s)) THEN acc
    ELSE LET low == acc[2] * 10 + DigitVal(Head(s))
         IN  DigitsValue(Tail(s), <<(acc[1] * 10 + low \div 65536) % 65536, low % 65536>>)

\* atoi is (int) strtol(s, NULL, 10): an optional sign, then the leading
\* decimal digits; a value of more than 31 bits wraps around (below 2^63,
\* where strtol does not saturate).
atoi(s) ==
    LET digits == IF s = "" THEN <<0, 0>>
                  ELSE IF Head(s) \in {"-", "+"} THEN DigitsValue(Tail(s), <<0, 0>>)
                  ELSE DigitsValue(s, <<0, 0>>)
        halves == IF s # "" /\ Head(s) = "-"
                  THEN <<(65536 - digits[1] - (IF digits[2] = 0 THEN 0 ELSE 1)) % 65536,
                         (65536 - digits[2]) % 65536>>
                  ELSE digits
    IN  IF halves[1] >= 32768 THEN (halves[1] - 65536) * 65536 + halves[2]
        ELSE halves[1] * 65536 + halves[2]

\* printf("%d") / printf("%u").
RECURSIVE Dec(_)
Dec(n) ==
    IF n < 0 THEN "-" \o Dec(0 - n)
    ELSE IF n < 10 THEN Ch("0123456789", n + 1)
    ELSE Dec(n \div 10) \o Ch("0123456789", (n % 10) + 1)

\* snprintf(buffer, size, ...): at most size - 1 characters are stored.
snprintf(size, text) == SubSeq(text, 1, Min(Len(text), size - 1))

(***************************************************************************)
(* The assembler: Parser.c                                                 *)
(***************************************************************************)

A_COMMAND == -1
C_COMMAND == 0
L_COMMAND == 1
\* getCommandType ends the program with exit(1) on any other line.
BAD_COMMAND == 2

getCommandTypeAsm(line) ==
    IF strchr(line, "@") # 0 THEN A_COMMAND
    ELSE IF strchr(line, "=") # 0 \/ strchr(line, ";") # 0 THEN C_COMMAND
    ELSE IF strchr(line, "(") # 0 /\ strchr(line, ")") # 0 THEN L_COMMAND
    ELSE BAD_COMMAND

\* strtol(line, &end, 10) consumed the whole, non-empty text.
isNumber(line) ==
    /\ line # ""
    /\ LET body == IF Head(line) \in {"+", "-"} THEN Tail(line) ELSE line
       IN  /\ body # ""
           /\ \A i \in 1..Len(body) : IsDigit(Ch(body, i))

RECURSIVE DropSpaces(_)
DropSpaces(s) ==
    IF s = "" THEN ""
    ELSE (IF isspace(Head(s)) THEN "" ELSE Head(s)) \o DropSpaces(Tail(s))

\* Cuts the line at "//" and drops every whitespace character; NULL when
\* nothing is left.
removeWhitespaceAsm(line) ==
    LET c   == strstr(line, "//")
        cut == IF c # 0 THEN SubSeq(line, 1, c - 1) ELSE line
        res == DropSpaces(cut)
    IN  IF res = "" THEN NULL ELSE res

\* The L_COMMAND branch exits when ')' does not follow '('.
getSymbolExits(line) ==
    /\ getCommandTypeAsm(line) = L_COMMAND
    /\ ~(strchr(line, ")") > strchr(line, "("))

getSymbol(line) ==
    IF getCommandTypeAsm(line) = A_COMMAND
    THEN SubSeq(line, strchr(line, "@") + 1, Len(line))
    ELSE SubSeq(line, strchr(line, "(") + 1, strchr(line, ")") - 1)

getDest(line) ==
    IF strchr(line, "=") = 0 THEN NULL
    ELSE SubSeq(line, 1, strchr(line, "=") - 1)

\* getComp without its first branch: with both '=' and ';' the jump stays in comp.
getCompToEnd(line) ==
    LET eq == strchr(line, "=")
        sc == strchr(line, ";")
    IN  IF eq # 0 THEN SubSeq(line, eq + 1, Len(line))
        ELSE IF sc # 0 THEN SubSeq(line, 1, sc - 1)
        ELSE line

getComp(line) ==
    LET eq == strchr(line, "=")
        sc == strchr(line, ";")
    IN  IF eq # 0 /\ sc # 0 THEN SubSeq(line, eq + 1, sc - 1)
        ELSE IF eq # 0 THEN SubSeq(line, eq + 1, Len(line))
        ELSE IF sc # 0 THEN SubSeq(line, 1, sc - 1)
        ELSE line

getJump(line) ==
    IF strchr(line, ";") = 0 THEN NULL
    ELSE SubSeq(line, strchr(line, ";") + 1, Len(line))

(***************************************************************************)
(* The assembler: Code.c and the tables of Config.h                        *)
(***************************************************************************)

MaxAddress == 32767

convertAddressExits(address) ==
    LET addr == atoi(address) IN addr < 0 \/ addr > MaxAddress

RECURSIVE AddressBits(_, _)
AddressBits(addr, i) ==
    (IF (addr \div (2 ^ i)) % 2 = 1 THEN "1" ELSE "0")
        \o (IF i = 0 THEN "" ELSE AddressBits(addr, i - 1))

\* convertAddress with the loop one bit off (addr >> (i + 1)).
convertAddressShifted(address) == "0" \o AddressBits(atoi(address) \div 2, 14)

convertAddress(address) == "0" \o AddressBits(atoi(address), 14)

convertDest(dest) ==
    IF dest = NULL THEN "000"
    ELSE IF dest = "M" THEN "001"
    ELSE IF dest = "D" THEN "010"
    ELSE IF dest = "MD" THEN "011"
    ELSE IF dest = "A" THEN "100"
    ELSE IF dest = "AM" THEN "101"
    ELSE IF dest = "AD" THEN "110"
    ELSE IF dest = "AMD" THEN "111"
    ELSE "000"

convertComp(comp) ==
    IF comp = NULL THEN "0000000"
    ELSE IF comp = "0" THEN "0101010"
    ELSE IF comp = "1" THEN "0111111"
    ELSE IF comp = "-1" THEN "0111010"
    ELSE IF comp = "D" THEN "0001100"
    ELSE IF comp = "A" THEN "0110000"
    ELSE IF comp = "!D" THEN "0001101"
    ELSE IF comp = "!A" THEN "0110001"
    ELSE IF comp = "-D" THEN "0001111"
    ELSE IF comp = "-A" THEN "0110011"
    ELSE IF comp = "D+1" THEN "0011111"
    ELSE IF comp = "A+1" THEN "0110111"
    ELSE IF comp = "D-1" THEN "0001110"
    ELSE IF comp = "A-1" THEN "0110010"
    ELSE IF comp = "D+A" THEN "0000010"
    ELSE IF comp = "D-A" THEN "0010011"
    ELSE IF comp = "A-D" THEN "0000111"
    ELSE IF comp = "D&A" THEN "0000000"
    ELSE IF comp = "D|A" THEN "0010101"
    ELSE IF comp = "M" THEN "1110000"
    ELSE IF comp = "!M" THEN "1110001"
    ELSE IF comp = "-M" THEN "1110011"
    ELSE IF comp = "M+1" THEN "1110111"
    ELSE IF comp = "M-1" THEN "1110010"
    ELSE IF comp = "D+M" THEN "1000010"
    ELSE IF comp = "D-M" THEN "1010011"
    ELSE IF comp = "M-D" THEN "1000111"
    ELSE IF comp = "D&M" THEN "1000000"
    ELSE IF comp = "D|M" THEN "1010101"
    ELSE "0000000"

convertJump(jump) ==
    IF jump = NULL THEN "000"
    ELSE IF jump = "JGT" THEN "001"
    ELSE IF jump = "JEQ" THEN "010"
    ELSE IF jump = "JGE" THEN "011"
    ELSE IF jump = "JLT" THEN "100"
    ELSE IF jump = "JNE" THEN "101"
    ELSE IF jump = "JLE" THEN "110"
    ELSE IF jump = "JMP" THEN "111"
    ELSE "000"

(***************************************************************************)
(* The assembler: SymbolTable.c (a linked list, here a sequence)           *)
(***************************************************************************)

contains(table, symbol) == \E i \in 1..Len(table) : table[i].name = symbol

getAddress(table, symbol) ==
    IF contains(table, symbol)
    THEN table[CHOOSE i \in 1..Len(table) :
                  /\ table[i].name = symbol
                  /\ \A j \in 1..(i - 1) : table[j].name # symbol].address
    ELSE 65535

\* addEntry without the test of contains: the new entry hides the old one.
addEntryAgain(table, symbol, address) ==
    <<[name |-> symbol, address |-> address % 65536]>> \o table

addEntry(table, symbol, address) ==
    IF contains(table, symbol) THEN table
    ELSE Append(table, [name |-> symbol, address |-> address % 65536])

RECURSIVE AddRegisters(_, _)
AddRegisters(table, n) ==
    IF n > 15 THEN table
    ELSE AddRegisters(addEntry(table, "R" \o Dec(n), n), n + 1)

initSymbolTable ==
    LET t5 == addEntry(addEntry(addEntry(addEntry(addEntry(<<>>,
                  "SP", 0), "LCL", 1), "ARG", 2), "THIS", 3), "THAT", 4)
    IN  addEntry(addEntry(AddRegisters(t5, 0), "SCREEN", 16384), "KBD", 24576)

(***************************************************************************)
(* The assembler: main of Assembler.c, one step per input line             *)
(***************************************************************************)

VARIABLES
    asmIn,          \* the lines of the .asm file
    asmPhase,       \* "first", "second", "done" (return 0) or "failed" (exit 1)
    asmLine,        \* the index of the line the next fgets reads
    symbolTable,
    romAddress,
    ramAddress,
    hackOut         \* the lines written to the .hack file

asmVars == <<asmIn, asmPhase, asmLine, symbolTable, romAddress, ramAddress, hackOut>>

\* The VM translator (VMTranslator.c, CodeWriter.c) and the Hack machine that
\* runs the assembly it wrote.
VARIABLES
    vmIn,           \* the argument: [mode, files, ram], ram the machine's memory at power-on
    vmPhase,        \* "start", "translate", "run", "failed"
    vmFile,         \* the index of the directory entry (or file) being read
    vmLine,         \* the index of the line the next fgets reads, 0 before the file is open
    asmText,        \* the lines written to the .asm file
    eqCounter,
    gtCounter,
    ltCounter,
    returnCounter,
    curr,
    currFunction,
    cpuA,           \* the A register
    cpuD,           \* the D register
    cpuPC,          \* the program counter
    cpuTicks,       \* the instructions executed so far
    ram,            \* the data memory, a function from the addresses written to words
    callFrame,      \* history: SP, LCL, ARG, THIS, THAT when call number n began
    retValue        \* history: the top of the stack when the last `return` began

writerVars == <<eqCounter, gtCounter, ltCounter, returnCounter, curr, currFunction>>

cpuVars == <<cpuA, cpuD, cpuPC, cpuTicks, ram, callFrame, retValue>>

vmVars == <<vmIn, vmPhase, vmFile, vmLine, asmText, writerVars, cpuVars>>

\* The Jack compiler (JackCompiler.c, CompilationEngine.c).
VARIABLES
    jackIn,             \* the argument: [directory, entries, overrun, about]
    jackPhase,          \* "start", "class", "classVarDec", "subroutine",
                        \* "done" (return 0) or "failed" (return 1, exit(1))
    jackEntry,          \* the index of the directory entry (or file) being compiled
    compilationEngine,  \* NULL while no file is open
    vmOut               \* the .vm files written: a sequence of [name, lines]

jackVars == <<jackIn, jackPhase, jackEntry, compilationEngine, vmOut>>

vars == <<asmVars, vmVars, jackVars>>

\* The programs share no state: while one runs the others stay as they are.
AsmIdle ==
    /\ asmIn = <<>>
    /\ asmPhase = "done"
    /\ asmLine = 1
    /\ symbolTable = <<>>
    /\ romAddress = 0
    /\ ramAddress = 16
    /\ hackOut = <<>>

VMIdle ==
    /\ vmIn = [mode |-> "file", files |-> <<>>, ram |-> <<>>]
    /\ vmPhase = "failed"
    /\ vmFile = 1
    /\ vmLine = 0
    /\ asmText = <<>>
    /\ eqCounter = 0
    /\ gtCounter = 0
    /\ ltCounter = 0
    /\ returnCounter = 0
    /\ curr = ""
    /\ currFunction = ""
    /\ cpuA = 0
    /\ cpuD = 0
    /\ cpuPC = 0
    /\ cpuTicks = 0
    /\ ram = <<>>
    /\ callFrame = <<>>
    /\ retValue = 0

JackIdle ==
    /\ jackIn = [directory |-> FALSE, entries |-> <<>>, overrun |-> FALSE,
                 about |-> [shape |-> "none"]]
    /\ jackPhase = "failed"
    /\ jackEntry = 1
    /\ compilationEngine = NULL
    /\ vmOut = <<>>

BufferSize == 5

\* Bounds of the assembler inputs.
MaxAsmLines == 3

SymbolLines == {"@LOOP", "(LOOP)", "@i", "@j", "D=A", "  // note", "(SP)", "(END)",
                "@SCREEN", "@ SP  // top"}

AddressSamples ==
    {2 ^ k : k \in 0..14} \cup {2 ^ k - 1 : k \in 0..15}
        \cup {21, 9999, 10000, 21845, 10922, 24576, 32766}

DestMnemonics == {NULL, "M", "D", "MD", "A", "AM", "AD", "AMD"}

CompMnemonics == {"0", "1", "-1", "D", "A", "!D", "!A", "-D", "-A", "D+1", "A+1",
                  "D-1", "A-1", "D+A", "D-A", "A-D", "D&A", "D|A",
                  "M", "!M", "-M", "M+1", "M-1", "D+M", "D-M", "M-D", "D&M", "D|M"}

JumpMnemonics == {NULL, "JGT", "JEQ", "JGE", "JLT", "JNE", "JLE", "JMP"}

CLine(d, c, j) ==
    (IF d = NULL THEN "" ELSE d \o "=") \o c \o (IF j = NULL THEN "" ELSE ";" \o j)

CLines == {CLine(d, c, j) : d \in DestMnemonics, c \in CompMnemonics, j \in JumpMnemonics}
              \ CompMnemonics

NumericLines ==
    {"@" \o Dec(n) : n \in AddressSamples}
        \cup {"@32768", "@-1", "@+7", "@65536", "@2147483648", "@4294967317", "@-4294967295"}

OddLines == {"D=D+Q", "X=D", "D;JXX", "D=A+D", "D=M+D", "LOOP", ")LOOP(", "@KBD", "@R13"}

AsmPrograms ==
    UNION {[1..n -> SymbolLines] : n \in 1..MaxAsmLines}
        \cup {<<l>> : l \in CLines \cup NumericLines \cup OddLines}

fgets(n) == asmIn[n] \o "\n"

InitAsm ==
    /\ asmIn \in AsmPrograms
    /\ asmPhase = "first"
    /\ asmLine = 1
    /\ symbolTable = initSymbolTable
    /\ romAddress = 0
    /\ ramAddress = 16
    /\ hackOut = <<>>
    /\ VMIdle
    /\ JackIdle

Reading(phase) == asmPhase = phase /\ asmLine <= Len(asmIn)

Trimmed == removeWhitespaceAsm(fgets(asmLine))

\* Assembler.c 56-60: a blank or comment-only line.
FirstPassSkip ==
    /\ Reading("first")
    /\ Trimmed = NULL
    /\ asmLine' = asmLine + 1
    /\ UNCHANGED <<asmIn, asmPhase, symbolTable, romAddress, ramAddress, hackOut>>
    /\ UNCHANGED <<vmVars, jackVars>>

\* FirstPassLabel that also counts the label line as an instruction.
FirstPassLabelCounted ==
    /\ Reading("first")
    /\ Trimmed # NULL
    /\ getCommandTypeAsm(Trimmed) = L_COMMAND
    /\ ~getSymbolExits(Trimmed)
    /\ symbolTable' = addEntry(symbolTable, getSymbol(Trimmed), romAddress)
    /\ romAddress' = (romAddress + 1) % 65536
    /\ asmLine' = asmLine + 1
    /\ UNCHANGED <<asmIn, asmPhase, ramAddress, hackOut>>
    /\ UNCHANGED <<vmVars, jackVars>>

\* Assembler.c 63-65.
FirstPassLabel ==
    /\ Reading("first")
    /\ Trimmed # NULL
    /\ getCommandTypeAsm(Trimmed) = L_COMMAND
    /\ ~getSymbolExits(Trimmed)
    /\ symbolTable' = addEntry(symbolTable, getSymbol(Trimmed), romAddress)
    /\ asmLine' = asmLine + 1
    /\ UNCHANGED <<asmIn, asmPhase, romAddress, ramAddress, hackOut>>
    /\ UNCHANGED <<vmVars, jackVars>>

\* Assembler.c 66-67.
FirstPassInstruction ==
    /\ Reading("first")
    /\ Trimmed # NULL
    /\ getCommandTypeAsm(Trimmed) \in {A_COMMAND, C_COMMAND}
    /\ romAddress' = (romAddress + 1) % 65536
    /\ asmLine' = asmLine + 1
    /\ UNCHANGED <<asmIn, asmPhase, symbolTable, ramAddress, hackOut>>
    /\ UNCHANGED <<vmVars, jackVars>>

\* exit(1) in getCommandType (Parser.c 31-32) or getSymbol (Parser.c 138-139).
FirstPassExit ==
    /\ Reading("first")
    /\ Trimmed # NULL
    /\ IF getCommandTypeAsm(Trimmed) = BAD_COMMAND THEN TRUE ELSE getSymbolExits(Trimmed)
    /\ asmPhase' = "failed"
    /\ UNCHANGED <<asmIn, asmLine, symbolTable, romAddress, ramAddress, hackOut>>
    /\ UNCHANGED <<vmVars, jackVars>>

\* Assembler.c 78: rewind.
Rewind ==
    /\ asmPhase = "first"
    /\ asmLine > Len(asmIn)
    /\ asmPhase' = "second"
    /\ asmLine' = 1
    /\ UNCHANGED <<asmIn, symbolTable, romAddress, ramAddress, hackOut>>
    /\ UNCHANGED <<vmVars, jackVars>>

\* Assembler.c 82-85 and 119-121: nothing is written.
SecondPassSkip ==
    /\ Reading("second")
    /\ IF Trimmed = NULL THEN TRUE ELSE getCommandTypeAsm(Trimmed) = L_COMMAND
    /\ asmLine' = asmLine + 1
    /\ UNCHANGED <<asmIn, asmPhase, symbolTable, romAddress, ramAddress, hackOut>>
    /\ UNCHANGED <<vmVars, jackVars>>

\* Assembler.c 92-94 and 130.
SecondPassNumber ==
    /\ Reading("second")
    /\ Trimmed # NULL
    /\ getCommandTypeAsm(Trimmed) = A_COMMAND
    /\ isNumber(getSymbol(Trimmed))
    /\ ~convertAddressExits(getSymbol(Trimmed))
    /\ hackOut' = Append(hackOut, convertAddress(getSymbol(Trimmed)))
    /\ asmLine' = asmLine + 1
    /\ UNCHANGED <<asmIn, asmPhase, symbolTable, romAddress, ramAddress>>
    /\ UNCHANGED <<vmVars, jackVars>>

\* SecondPassSymbol with ramAddress++ after the if: every reference advances it.
SecondPassSymbolAdvancing ==
    /\ Reading("second")
    /\ Trimmed # NULL
    /\ getCommandTypeAsm(Trimmed) = A_COMMAND
    /\ ~isNumber(getSymbol(Trimmed))
    /\ LET symbol  == getSymbol(Trimmed)
           table   == addEntry(symbolTable, symbol, ramAddress)
           buffer  == snprintf(BufferSize, Dec(getAddress(table, symbol)))
       IN  /\ ~convertAddressExits(buffer)
           /\ symbolTable' = table
           /\ ramAddress' = (ramAddress + 1) % 65536
           /\ hackOut' = Append(hackOut, convertAddress(buffer))
    /\ asmLine' = asmLine + 1
    /\ UNCHANGED <<asmIn, asmPhase, romAddress>>
    /\ UNCHANGED <<vmVars, jackVars>>

\* Assembler.c 95-105 and 130.
SecondPassSymbol ==
    /\ Reading("second")
    /\ Trimmed # NULL
    /\ getCommandTypeAsm(Trimmed) = A_COMMAND
    /\ ~isNumber(getSymbol(Trimmed))
    /\ LET symbol  == getSymbol(Trimmed)
           known   == contains(symbolTable, symbol)
           table   == IF known THEN symbolTable
                      ELSE addEntry(symbolTable, symbol, ramAddress)
           address == getAddress(table, symbol)
           buffer  == snprintf(BufferSize, Dec(address))
       IN  /\ ~convertAddressExits(buffer)
           /\ symbolTable' = table
           /\ ramAddress' = IF known THEN ramAddress ELSE (ramAddress + 1) % 65536
           /\ hackOut' = Append(hackOut, convertAddress(buffer))
    /\ asmLine' = asmLine + 1
    /\ UNCHANGED <<asmIn, asmPhase, romAddress>>
    /\ UNCHANGED <<vmVars, jackVars>>

\* SecondPassCompute with a buffer one character short (snprintf of size 16).
SecondPassComputeShort ==
    /\ Reading("second")
    /\ Trimmed # NULL
    /\ getCommandTypeAsm(Trimmed) = C_COMMAND
    /\ LET destBits == convertDest(getDest(Trimmed))
           compBits == convertComp(getComp(Trimmed))
           jumpBits == convertJump(getJump(Trimmed))
       IN  hackOut' = Append(hackOut, snprintf(16, "111" \o compBits \o destBits \o jumpBits))
    /\ asmLine' = asmLine + 1
    /\ UNCHANGED <<asmIn, asmPhase, symbolTable, romAddress, ramAddress>>
    /\ UNCHANGED <<vmVars, jackVars>>

\* Assembler.c 107-118 and 130.
SecondPassCompute ==
    /\ Reading("second")
    /\ Trimmed # NULL
    /\ getCommandTypeAsm(Trimmed) = C_COMMAND
    /\ LET destBits == convertDest(getDest(Trimmed))
           compBits == convertComp(getComp(Trimmed))
           jumpBits == convertJump(getJump(Trimmed))
       IN  hackOut' = Append(hackOut, snprintf(17, "111" \o compBits \o destBits \o jumpBits))
    /\ asmLine' = asmLine + 1
    /\ UNCHANGED <<asmIn, asmPhase, symbolTable, romAddress, ramAddress>>
    /\ UNCHANGED <<vmVars, jackVars>>

\* exit(1) in convertAddress (Code.c 27-30).
SecondPassExit ==
    /\ Reading("second")
    /\ Trimmed # NULL
    /\ getCommandTypeAsm(Trimmed) = A_COMMAND
    /\ isNumber(getSymbol(Trimmed))
    /\ convertAddressExits(getSymbol(Trimmed))
    /\ asmPhase' = "failed"
    /\ UNCHANGED <<asmIn, asmLine, symbolTable, romAddress, ramAddress, hackOut>>
    /\ UNCHANGED <<vmVars, jackVars>>

\* Assembler.c 133-137: return 0.
AsmFinish ==
    /\ asmPhase = "second"
    /\ asmLine > Len(asmIn)
    /\ asmPhase' = "done"
    /\ UNCHANGED <<asmIn, asmLine, symbolTable, romAddress, ramAddress, hackOut>>
    /\ UNCHANGED <<vmVars, jackVars>>

NextAsm ==
    \/ FirstPassSkip
    \/ FirstPassLabel
    \/ FirstPassInstruction
    \/ FirstPassExit
    \/ Rewind
    \/ SecondPassSkip
    \/ SecondPassNumber
    \/ SecondPassSymbol
    \/ SecondPassCompute
    \/ SecondPassExit
    \/ AsmFinish

SpecAsm == InitAsm /\ [][NextAsm]_vars

(***************************************************************************)
(* The Hack machine language, the reference the claims are read against:   *)
(* the value a comp mnemonic denotes, and the ALU that decodes comp bits.   *)
(***************************************************************************)

Word == 65536

RECURSIVE And16(_, _)
And16(x, y) ==
    IF x = 0 \/ y = 0 THEN 0
    ELSE (x % 2) * (y % 2) + 2 * And16(x \div 2, y \div 2)

Not16(x) == (Word - 1) - x

Or16(x, y) == Not16(And16(Not16(x), Not16(y)))

\* The value of a comp mnemonic, read as written: operand, -operand,
\* !operand or operand op operand, over the registers A, D and M.
CompValue(comp, a, d, m) ==
    LET Operand(t) == CASE t = "0" -> 0 [] t = "1" -> 1
                        [] t = "A" -> a [] t = "D" -> d [] t = "M" -> m
    IN  IF Len(comp) = 1 THEN Operand(comp)
        ELSE IF Len(comp) = 2
        THEN IF Head(comp) = "-" THEN (Word - Operand(Tail(comp))) % Word
             ELSE Not16(Operand(Tail(comp)))
        ELSE LET l  == Operand(Ch(comp, 1))
                 r  == Operand(Ch(comp, 3))
                 op == Ch(comp, 2)
             IN  CASE op = "+" -> (l + r) % Word
                   [] op = "-" -> (l - r + Word) % Word
                   [] op = "&" -> And16(l, r)
                   [] op = "|" -> Or16(l, r)

\* The Hack ALU on the seven comp bits a zx nx zy ny f no.
AluValue(bits, a, d, m) ==
    LET on(i) == Ch(bits, i) = "1"
        y0 == IF on(1) THEN m ELSE a
        x1 == IF on(2) THEN 0 ELSE d
        x2 == IF on(3) THEN Not16(x1) ELSE x1
        y1 == IF on(4) THEN 0 ELSE y0
        y2 == IF on(5) THEN Not16(y1) ELSE y1
        o  == IF on(6) THEN (x2 + y2) % Word ELSE And16(x2, y2)
    IN  IF on(7) THEN Not16(o) ELSE o

\* Register contents that tell the 28 computations apart.
AluSamples == {<<3, 5, 9>>, <<65535, 1, 0>>, <<12345, 54321, 255>>}

\* dest bits: one bit each for A, D and M.
HackDest(dest) ==
    (IF strchr(dest, "A") # 0 THEN "1" ELSE "0")
        \o (IF strchr(dest, "D") # 0 THEN "1" ELSE "0")
        \o (IF strchr(dest, "M") # 0 THEN "1" ELSE "0")

\* jump bits: jump when the result is negative, zero, positive.
JumpSigns(jump) ==
    CASE jump = "JGT" -> {1}
      [] jump = "JEQ" -> {0}
      [] jump = "JGE" -> {0, 1}
      [] jump = "JLT" -> {-1}
      [] jump = "JNE" -> {-1, 1}
      [] jump = "JLE" -> {-1, 0}
      [] jump = "JMP" -> {-1, 0, 1}
      [] OTHER -> {}

HackJump(jump) ==
    (IF -1 \in JumpSigns(jump) THEN "1" ELSE "0")
        \o (IF 0 \in JumpSigns(jump) THEN "1" ELSE "0")
        \o (IF 1 \in JumpSigns(jump) THEN "1" ELSE "0")

RECURSIVE BinaryValue(_, _)
BinaryValue(bits, acc) ==
    IF bits = "" THEN acc
    ELSE BinaryValue(Tail(bits), 2 * acc + (IF Head(bits) = "1" THEN 1 ELSE 0))

\* line is '0' followed by the 15-bit big-endian binary of n.
EncodesAddress(line, n) ==
    /\ Len(line) = 16
    /\ Head(line) = "0"
    /\ \A i \in 1..16 : Ch(line, i) \in {"0", "1"}
    /\ BinaryValue(line, 0) = n

(***************************************************************************)
(* Claims about the assembler                                              *)
(***************************************************************************)

\* The line of the input being processed is `@sym` with a non-numeric sym.
AtSymbol(sym) ==
    /\ Reading("second")
    /\ Trimmed # NULL
    /\ getCommandTypeAsm(Trimmed) = A_COMMAND
    /\ getSymbol(Trimmed) = sym
    /\ ~isNumber(sym)

\* C2: when `@sym` is processed in pass 2 and sym is in the symbol map with
\* address a, the step writes one line, '0' followed by the 15-bit binary of a.
C2_SymbolEncodesItsAddress ==
    [][\A i \in 1..Len(symbolTable) :
          AtSymbol(symbolTable[i].name) =>
              /\ Len(hackOut') = Len(hackOut) + 1
              /\ EncodesAddress(hackOut'[Len(hackOut')],
                                getAddress(symbolTable, symbolTable[i].name))]_vars

CEncodings ==
    {[line |-> CLine(d, c, j), dest |-> d, comp |-> c, jump |-> j] :
        d \in DestMnemonics, c \in CompMnemonics, j \in JumpMnemonics}

\* line is 111, seven comp bits on which the ALU computes what the mnemonic
\* denotes, the dest bits and the jump bits.
EncodesCompute(line, e) ==
    /\ Len(line) = 16
    /\ SubSeq(line, 1, 3) = "111"
    /\ \A r \in AluSamples :
          AluValue(SubSeq(line, 4, 10), r[1], r[2], r[3])
              = CompValue(e.comp, r[1], r[2], r[3])
    /\ SubSeq(line, 11, 13) = HackDest(e.dest)
    /\ SubSeq(line, 14, 16) = HackJump(e.jump)

\* C3: a file made of the one line `dest=comp;jump` (dest= or ;jump omitted
\* when null, not both) assembles to the one line 111 + comp + dest + jump of
\* the Hack tables; D=D+A gives 1110000010010000 and 0;JMP 1110101010000111.
C3_ComputeEncoding ==
    (asmPhase = "done" /\ Len(asmIn) = 1) =>
        /\ \A e \in CEncodings :
              (asmIn[1] = e.line /\ ~(e.dest = NULL /\ e.jump = NULL)) =>
                  (Len(hackOut) = 1 /\ EncodesCompute(hackOut[1], e))
        /\ asmIn[1] = "D=D+A" => hackOut = <<"1110000010010000">>
        /\ asmIn[1] = "0;JMP" => hackOut = <<"1110101010000111">>

C3_Witness ==
    /\ asmPhase = "done"
    /\ asmIn = <<"AMD=D|M;JLE">>
    /\ hackOut = <<"1111010101111110">>

\* Line k of the input is a label line / an A- or C-instruction line.
IsLabelLine(k) ==
    LET t == removeWhitespaceAsm(asmIn[k] \o "\n")
    IN  t # NULL /\ getCommandTypeAsm(t) = L_COMMAND

IsInstructionLine(k) ==
    LET t == removeWhitespaceAsm(asmIn[k] \o "\n")
    IN  t # NULL /\ getCommandTypeAsm(t) \in {A_COMMAND, C_COMMAND}

LabelOf(k) == getSymbol(removeWhitespaceAsm(asmIn[k] \o "\n"))

InstructionsBefore(k) == Cardinality({j \in 1..(k - 1) : IsInstructionLine(j)})

IsFirstLabelLine(k) ==
    /\ IsLabelLine(k)
    /\ \A j \in 1..(k - 1) : IsLabelLine(j) => LabelOf(j) # LabelOf(k)

Predefined == {initSymbolTable[i].name : i \in 1..Len(initSymbolTable)}

C4_LabelsBound ==
    asmPhase \in {"second", "done"} =>
        \A k \in 1..Len(asmIn) :
            (IsFirstLabelLine(k) /\ LabelOf(k) \notin Predefined) =>
                getAddress(symbolTable, LabelOf(k)) = InstructionsBefore(k)

C4_ReferenceStep ==
    \A k \in 1..Len(asmIn) :
        (IsFirstLabelLine(k) /\ LabelOf(k) \notin Predefined /\ AtSymbol(LabelOf(k))) =>
            /\ ramAddress' = ramAddress
            /\ symbolTable' = symbolTable
            /\ Len(hackOut') = Len(hackOut) + 1
            /\ EncodesAddress(hackOut'[Len(hackOut')], InstructionsBefore(k))

C5_NumericAddress ==
    (asmPhase = "done" /\ Len(asmIn) = 1) =>
        /\ \A n \in AddressSamples :
              asmIn[1] = "@" \o Dec(n) =>
                  (Len(hackOut) = 1 /\ EncodesAddress(hackOut[1], n))
        /\ asmIn[1] = "@21" => hackOut = <<"0000000000010101">>
        /\ asmIn[1] = "@32767" => hackOut = <<"0111111111111111">>

C5_Witness ==
    /\ asmPhase = "done"
    /\ asmIn = <<"@32767">>
    /\ hackOut = <<"0111111111111111">>

(***************************************************************************)
(* The VM translator: Parser.c                                             *)
(***************************************************************************)

C_ARITHMETIC == 0
C_PUSH == 1
C_POP == 2
C_LABEL == 3
C_GOTO == 4
C_IF == 5
C_FUNCTION == 6
C_RETURN == 7
C_CALL == 8
C_UNKNOWN == 9

MAX_ARG_LENGTH == 256

\* strtok(s, " \t\n\r") called until it returns NULL: the tokens of s.
RECURSIVE strtok(_, _, _)
strtok(s, token, found) ==
    IF s = "" THEN (IF token = "" THEN found ELSE Append(found, token))
    ELSE IF Head(s) \in {" ", "\t", "\n", "\r"}
    THEN strtok(Tail(s), "", IF token = "" THEN found ELSE Append(found, token))
    ELSE strtok(Tail(s), token \o Head(s), found)

getCommandTypeVM(line) ==
    LET tokens  == strtok(line, "", <<>>)
        command == IF tokens = <<>> THEN NULL ELSE tokens[1]
    IN  IF command = NULL THEN C_UNKNOWN
        ELSE IF command \in {"add", "sub", "neg", "eq", "gt", "lt", "and", "or", "not"}
        THEN C_ARITHMETIC
        ELSE IF command = "push" THEN C_PUSH
        ELSE IF command = "pop" THEN C_POP
        ELSE IF command = "label" THEN C_LABEL
        ELSE IF command = "goto" THEN C_GOTO
        ELSE IF command = "if-goto" THEN C_IF
        ELSE IF command = "function" THEN C_FUNCTION
        ELSE IF command = "return" THEN C_RETURN
        ELSE IF command = "call" THEN C_CALL
        ELSE C_UNKNOWN

\* The comment is cut, then the white space at both ends; the white space
\* between the words stays.
removeWhitespaceVM(line) ==
    LET comment == strstr(line, "//")
        cut     == IF comment # 0 THEN SubSeq(line, 1, comment - 1) ELSE line
        inked   == {i \in 1..Len(cut) : ~isspace(Ch(cut, i))}
        first   == CHOOSE i \in inked : \A j \in inked : i <= j
        last    == CHOOSE i \in inked : \A j \in inked : j <= i
    IN  IF inked = {} THEN NULL ELSE SubSeq(cut, first, last)

getArg1(line, commandType) ==
    LET tokens == strtok(line, "", <<>>)
    IN  IF tokens = <<>> THEN NULL
        ELSE IF commandType # C_ARITHMETIC /\ Len(tokens) < 2 THEN NULL
        ELSE LET source == IF commandType = C_ARITHMETIC THEN tokens[1] ELSE tokens[2]
             IN  IF Len(source) >= MAX_ARG_LENGTH THEN NULL ELSE source

getArg2(line) ==
    LET tokens == strtok(line, "", <<>>)
    IN  IF Len(tokens) < 3 THEN NULL
        ELSE IF Len(tokens[3]) >= MAX_ARG_LENGTH THEN NULL
        ELSE tokens[3]

(***************************************************************************)
(* The VM translator: CodeWriter.c.  Each function is the sequence of      *)
(* lines it prints; the static counters and names are parameters.          *)
(***************************************************************************)

writeLabel(function, label) ==
    IF Len(function) > 0 THEN <<"(" \o function \o "$" \o label \o ")">>
    ELSE <<"(" \o label \o ")">>

writeGoto(function, label) ==
    <<IF Len(function) > 0 THEN "@" \o function \o "$" \o label ELSE "@" \o label,
      "0;JMP">>

writeIf(function, label) ==
    <<"@SP", "AM=M-1", "D=M",
      IF Len(function) > 0 THEN "@" \o function \o "$" \o label ELSE "@" \o label,
      "D;JNE">>

\* writeCall that sets ARG to SP - numArgs - 6.
writeCallOneMore(counter, functionName, numArgs) ==
    <<"@RETURN" \o Dec(counter), "D=A", "@SP", "A=M", "M=D", "@SP", "M=M+1",
      "@LCL", "D=M", "@SP", "A=M", "M=D", "@SP", "M=M+1",
      "@ARG", "D=M", "@SP", "A=M", "M=D", "@SP", "M=M+1",
      "@THIS", "D=M", "@SP", "A=M", "M=D", "@SP", "M=M+1",
      "@THAT", "D=M", "@SP", "A=M", "M=D", "@SP", "M=M+1",
      "@SP", "D=M", "@" \o Dec(numArgs + 6), "D=D-A", "@ARG", "M=D",
      "@SP", "D=M", "@LCL", "M=D",
      "@" \o functionName, "0;JMP",
      "(RETURN" \o Dec(counter) \o ")">>

\* counter is returnCounter before the call; the caller increments it.
writeCall(counter, functionName, numArgs) ==
    LET returnLabel == "RETURN" \o Dec(counter)
    IN  <<"@" \o returnLabel, "D=A", "@SP", "A=M", "M=D", "@SP", "M=M+1",
          "@LCL", "D=M", "@SP", "A=M", "M=D", "@SP", "M=M+1",
          "@ARG", "D=M", "@SP", "A=M", "M=D", "@SP", "M=M+1",
          "@THIS", "D=M", "@SP", "A=M", "M=D", "@SP", "M=M+1",
          "@THAT", "D=M", "@SP", "A=M", "M=D", "@SP", "M=M+1",
          "@SP", "D=M", "@" \o Dec(numArgs + 5), "D=D-A", "@ARG", "M=D",
          "@SP", "D=M", "@LCL", "M=D",
          "@" \o functionName, "0;JMP",
          "(" \o returnLabel \o ")">>

\* writeInit without the frame of the call: SP = 256, then a jump to Sys.init.
writeInitJump(counter) ==
    <<"@256", "D=A", "@SP", "M=D", "@Sys.init", "0;JMP">>

writeInit(counter) ==
    <<"@256", "D=A", "@SP", "M=D">> \o writeCall(counter, "Sys.init", 0)

writeReturn ==
    <<"@LCL", "D=M", "@R13", "M=D",
      "@R13", "D=M", "@5", "A=D-A", "D=M", "@R14", "M=D",
      "@SP", "AM=M-1", "D=M", "@ARG", "A=M", "M=D",
      "@ARG", "D=M+1", "@SP", "M=D",
      "@R13", "D=M", "@1", "A=D-A", "D=M", "@THAT", "M=D",
      "@R13", "D=M", "@2", "A=D-A", "D=M", "@THIS", "M=D",
      "@R13", "D=M", "@3", "A=D-A", "D=M", "@ARG", "M=D",
      "@R13", "D=M", "@4", "A=D-A", "D=M", "@LCL", "M=D",
      "@R14", "A=M", "0;JMP">>

writeFunction(functionName, numLocals) ==
    LET initLocal == <<"@0", "D=A", "@SP", "A=M", "M=D", "@SP", "M=M+1">>
    IN  <<"(" \o functionName \o ")">>
            \o [i \in 1..(7 * numLocals) |-> initLocal[((i - 1) % 7) + 1]]

\* writeArithmetic that computes D-M where the source computes M+D, M-D, ...
writeArithmeticReversed(command, eq, gt, lt) ==
    IF command \in {"neg", "not"} THEN <<"@SP", "A=M-1", "M=D-M">>
    ELSE <<"@SP", "AM=M-1", "D=M", "A=A-1", "M=D-M">>

\* eq, gt, lt are eqCounter, gtCounter, ltCounter; the caller increments the
\* one the command used.
writeArithmetic(command, eq, gt, lt) ==
    LET binary(comp) == <<"@SP", "AM=M-1", "D=M", "A=A-1", comp>>
        compare(name, jump, n) ==
            <<"@SP", "AM=M-1", "D=M", "A=A-1", "D=M-D",
              "@" \o name \o Dec(n), "D;" \o jump,
              "@SP", "A=M-1", "M=0",
              "@" \o name \o "DONE" \o Dec(n), "0;JMP",
              "(" \o name \o Dec(n) \o ")",
              "@SP", "A=M-1", "M=-1",
              "(" \o name \o "DONE" \o Dec(n) \o ")">>
    IN  IF command = "add" THEN binary("M=M+D")
        ELSE IF command = "sub" THEN binary("M=M-D")
        ELSE IF command = "neg" THEN <<"@SP", "A=M-1", "M=-M">>
        ELSE IF command = "eq" THEN compare("EQ", "JEQ", eq)
        ELSE IF command = "gt" THEN compare("GT", "JGT", gt)
        ELSE IF command = "lt" THEN compare("LT", "JLT", lt)
        ELSE IF command = "and" THEN binary("M=M&D")
        ELSE IF command = "or" THEN binary("M=M|D")
        ELSE IF command = "not" THEN <<"@SP", "A=M-1", "M=!M">>
        ELSE <<>>

\* writePushPop that treats every segment as constant: a push pushes the
\* index and a pop drops the top of the stack.
writePushPopConstant(commandType, segment, index, file) ==
    IF commandType = C_PUSH
    THEN <<"@" \o index, "D=A", "@SP", "A=M", "M=D", "@SP", "M=M+1">>
    ELSE <<"@SP", "AM=M-1", "D=M">>

writePushPop(commandType, segment, index, file) ==
    LET pushD == <<"@SP", "A=M", "M=D", "@SP", "M=M+1">>
        pushFrom(base) == <<"@" \o index, "D=A", "@" \o base, "A=M+D", "D=M">> \o pushD
        popTo(base) ==
            <<"@" \o index, "D=A", "@" \o base, "D=M+D", "@R13", "M=D",
              "@SP", "AM=M-1", "D=M", "@R13", "A=M", "M=D">>
        pointer == IF index = "0" THEN "@THIS" ELSE "@THAT"
    IN  IF commandType = C_PUSH
        THEN IF segment = "constant" THEN <<"@" \o index, "D=A">> \o pushD
             ELSE IF segment = "local" THEN pushFrom("LCL")
             ELSE IF segment = "argument" THEN pushFrom("ARG")
             ELSE IF segment = "this" THEN pushFrom("THIS")
             ELSE IF segment = "that" THEN pushFrom("THAT")
             ELSE IF segment = "static"
             THEN <<"@" \o file \o "." \o index, "D=M">> \o pushD
             ELSE IF segment = "temp"
             THEN <<"@" \o index, "D=A", "@5", "A=A+D", "D=M">> \o pushD
             ELSE IF segment = "pointer" THEN <<pointer, "D=M">> \o pushD
             ELSE <<>>
        ELSE IF commandType = C_POP
        THEN IF segment = "local" THEN popTo("LCL")
             ELSE IF segment = "argument" THEN popTo("ARG")
             ELSE IF segment = "this" THEN popTo("THIS")
             ELSE IF segment = "that" THEN popTo("THAT")
             ELSE IF segment = "static"
             THEN <<"@SP", "AM=M-1", "D=M", "@" \o file \o "." \o index, "M=D">>
             ELSE IF segment = "temp"
             THEN <<"@" \o index, "D=A", "@5", "D=A+D", "@R13", "M=D",
                    "@SP", "AM=M-1", "D=M", "@R13", "A=M", "M=D">>
             ELSE IF segment = "pointer"
             THEN <<"@SP", "AM=M-1", "D=M", pointer, "M=D">>
             ELSE <<>>
        ELSE <<>>

(***************************************************************************)
(* The Hack machine that runs the translator's output.  An ideal assembler *)
(* resolves the symbols: predefined names, labels, then variables from 16. *)
(***************************************************************************)

IsInstruction(line) == Head(line) # "("

Rom(text) == SelectSeq(text, IsInstruction)

IsLabel(text, symbol) == \E i \in 1..Len(text) : text[i] = "(" \o symbol \o ")"

\* The address of the instruction that follows the line (label).
LabelAddress(text, label) ==
    LET at == CHOOSE i \in 1..Len(text) :
                  /\ text[i] = "(" \o label \o ")"
                  /\ \A j \in 1..(i - 1) : text[j] # text[i]
    IN  Len(Rom(SubSeq(text, 1, at - 1)))

IsVariable(text, symbol) ==
    /\ ~isNumber(symbol)
    /\ ~contains(initSymbolTable, symbol)
    /\ ~IsLabel(text, symbol)

SymbolValue(text, symbol) ==
    IF isNumber(symbol) THEN atoi(symbol)
    ELSE IF contains(initSymbolTable, symbol) THEN getAddress(initSymbolTable, symbol)
    ELSE IF IsLabel(text, symbol) THEN LabelAddress(text, symbol)
    ELSE LET use == CHOOSE i \in 1..Len(text) :
                        /\ text[i] = "@" \o symbol
                        /\ \A j \in 1..(i - 1) : text[j] # text[i]
             earlier == {Tail(text[j]) : j \in {j \in 1..(use - 1) : Head(text[j]) = "@"}}
         IN  16 + Cardinality({s \in earlier : IsVariable(text, s)})

\* -1, 0 or 1: the sign of a word read as a two's complement number.
Sign(word) == IF word = 0 THEN 0 ELSE IF word >= Word \div 2 THEN -1 ELSE 1

Mem(memory, address) == IF address \in DOMAIN memory THEN memory[address] ELSE 0

Store(memory, address, word) == (address :> word) @@ memory

(***************************************************************************)
(* The VM translator: main of VMTranslator.c, one action per command       *)
(***************************************************************************)

MaxArgs == 2
MaxLocals == 2
MaxVmLines == 2
MaxTicks == 400

Words16 == {0, 1, 2, 7, 8, 255, 21845, 32767, 32768, 43690, 65534, 65535}

ArithmeticCommands == {"add", "sub", "neg", "eq", "gt", "lt", "and", "or", "not"}

File(name, lines) == [name |-> name, lines |-> lines]

\* One command run on a stack whose two top words are x and y.
ArithmeticCases ==
    {[mode |-> "file", files |-> <<File("Test.vm", <<op>>)>>,
      ram |-> (0 :> sp) @@ ((sp - 2) :> x) @@ ((sp - 1) :> y)] :
        op \in ArithmeticCommands, x \in Words16, y \in Words16, sp \in {258, 1000}}

Frames ==
    {(0 :> 256) @@ (1 :> 300) @@ (2 :> 400) @@ (3 :> 3000) @@ (4 :> 4000),
     (0 :> 1000) @@ (1 :> 65535) @@ (2 :> 0) @@ (3 :> 32768) @@ (4 :> 7)}

Bodies ==
    {<<"push constant 42">>,
     <<"push argument 0">>,
     <<"push constant 5", "pop pointer 0", "push constant 6", "pop pointer 1",
       "push constant 9", "pop local 0", "push constant 1", "push constant 2", "add">>,
     <<"push constant 3", "call g 1", "push constant 4", "add">>}

\* The caller pushes n arguments and calls f; f has k locals and the body.
CallProgram(n, k, body) ==
    [i \in 1..n |-> "push constant " \o Dec(10 + i)]
        \o <<"call f " \o Dec(n), "label END", "goto END", "function f " \o Dec(k)>>
        \o body \o <<"return", "function g 0", "push argument 0", "return">>

CallCases ==
    {[mode |-> "file", files |-> <<File("Test.vm", CallProgram(n, k, body))>>, ram |-> frame] :
        n \in 0..MaxArgs, k \in 0..MaxLocals, body \in Bodies, frame \in Frames}

SysFile == File("Sys.vm", <<"function Sys.init 0", "push constant 7", "call Main.twice 1",
                            "pop static 0", "label END", "goto END">>)

MainFile == File("Main.vm", <<"function Main.twice 1", "push argument 0", "pop static 0",
                              "push static 0", "push argument 0", "add", "return">>)

\* A file whose first commands are outside any function.
LoopFile == File("Loop.vm", <<"label TOP", "push constant 0", "if-goto TOP", "goto TOP",
                              "function Loop.run 0", "label TOP", "goto TOP">>)

DirectoryCases ==
    {[mode |-> "dir", files |-> files, ram |-> (0 :> 0)] :
        files \in {<<File("notes.txt", <<"push constant 1">>), SysFile, MainFile>>,
                   <<MainFile, File("vm", <<>>), SysFile>>,
                   <<SysFile, MainFile, LoopFile>>,
                   <<LoopFile, SysFile, MainFile>>}}

\* Every segment, pushed and popped.
SegmentLines ==
    {"pop local 1", "push static 3", "pop static 3", "push temp 2", "pop temp 2",
     "push pointer 1", "pop pointer 0", "pop pointer 1", "push this 1", "pop that 2",
     "push argument 1", "pop argument 0", "pop constant 1", "push that 0", "pop this 0",
     "push local 0", "push pointer 0", "pop bogus 0", "return",
     "call f", "function f", "call f 1", "function f 1"}

OtherLines ==
    {"", "  // note", "foo", "push", "push local", "push bogus 1", "pop static 3",
     "label L", "goto L", "if-goto L", "\tadd  // sum", "push   constant\t7"}

StartRam ==
    (0 :> 256) @@ (1 :> 300) @@ (2 :> 400) @@ (3 :> 3000) @@ (4 :> 4000)
        @@ (301 :> 77) @@ (255 :> 1)

OtherCases ==
    {[mode |-> "file", files |-> <<File("a/Prog.vm", lines)>>, ram |-> StartRam] :
        lines \in UNION {[1..n -> OtherLines] : n \in 1..MaxVmLines}
                    \cup {<<l>> : l \in SegmentLines}}
    \cup {[mode |-> "file", ram |-> (0 :> 256),
           files |-> <<File(name, <<"push constant 7", "push constant 8", "add">>)>>] :
              name \in {"Add.vm", "Add.asm", "Add"}}

\* The commands that take a label from a counter.
CounterLines == {"eq", "gt", "lt", "call f 0"}

\* A directory of two files with such commands; Sys.init jumps over its own.
CounterCases ==
    {[mode |-> "dir", ram |-> (0 :> 0),
      files |-> <<File("Lib.vm", lib),
                  File("Sys.vm", <<"function Sys.init 0", "goto END">> \o sys
                                     \o <<"label END">>)>>] :
        lib \in [1..MaxVmLines -> CounterLines],
        sys \in {<<"eq", "call f 0">>, <<"lt", "gt">>, <<"call f 0", "eq">>}}

\* The segments that have cells, with indexes valid for each.
SegmentCells ==
    ({"local", "argument", "this", "that"} \X {0, 1, 5})
        \cup ({"temp"} \X {0, 3, 7}) \cup ({"pointer"} \X {0, 1}) \cup ({"static"} \X {0, 2})

TripFrames ==
    {(0 :> 258) @@ (1 :> 300) @@ (2 :> 400) @@ (3 :> 3000) @@ (4 :> 4000)
        @@ (256 :> 11) @@ (257 :> 45),
     (0 :> 1002) @@ (1 :> 2000) @@ (2 :> 990) @@ (3 :> 65000) @@ (4 :> 32768)
        @@ (1000 :> 65535) @@ (1001 :> 32768)}

\* The address of cell i of the segment; the first static of a file is the
\* first variable of the program.
CellOf(segment, i, memory) ==
    CASE segment = "local" -> (memory[1] + i) % Word
      [] segment = "argument" -> (memory[2] + i) % Word
      [] segment = "this" -> (memory[3] + i) % Word
      [] segment = "that" -> (memory[4] + i) % Word
      [] segment = "temp" -> 5 + i
      [] segment = "pointer" -> 3 + i
      [] segment = "static" -> 16

\* push seg i, pop seg i and pop seg i, push seg i on a frame whose cell
\* holds 777.
RoundTripCases ==
    {[mode |-> "file",
      files |-> <<File("Trip.vm", <<first \o " " \o cell[1] \o " " \o Dec(cell[2]),
                                    (IF first = "push" THEN "pop" ELSE "push")
                                        \o " " \o cell[1] \o " " \o Dec(cell[2])>>)>>,
      ram |-> (CellOf(cell[1], cell[2], frame) :> 777) @@ frame] :
        first \in {"push", "pop"}, cell \in SegmentCells, frame \in TripFrames}

VMCases ==
    ArithmeticCases \cup CallCases \cup DirectoryCases \cup CounterCases
        \cup RoundTripCases \cup OtherCases

\* strrchr(name, '.') finds the extension ".vm".
HasVmExtension(name) ==
    LET dots == {i \in 1..Len(name) : Ch(name, i) = "."}
        last == CHOOSE i \in dots : \A j \in dots : j <= i
    IN  IF dots = {} THEN FALSE ELSE SubSeq(name, last, Len(name)) = ".vm"

InitVM ==
    /\ vmIn \in VMCases
    /\ vmPhase = "start"
    /\ vmFile = 1
    /\ vmLine = 0
    /\ asmText = <<>>
    /\ eqCounter = 0
    /\ gtCounter = 0
    /\ ltCounter = 0
    /\ returnCounter = 0
    /\ curr = ""
    /\ currFunction = ""
    /\ cpuA = 0
    /\ cpuD = 0
    /\ cpuPC = 0
    /\ cpuTicks = 0
    /\ ram = vmIn.ram
    /\ callFrame = <<>>
    /\ retValue = 0
    /\ AsmIdle
    /\ JackIdle

\* VMTranslator.c 15-39: the argument is a directory.
VMOpenDirectory ==
    /\ vmPhase = "start"
    /\ vmIn.mode = "dir"
    /\ asmText' = asmText \o writeInit(returnCounter)
    /\ returnCounter' = returnCounter + 1
    /\ vmPhase' = "translate"
    /\ UNCHANGED <<vmIn, vmFile, vmLine, eqCounter, gtCounter, ltCounter, curr, currFunction>>
    /\ UNCHANGED <<cpuVars, asmVars, jackVars>>

\* VMTranslator.c 42-45: a directory entry that is not a .vm file.
VMSkipEntry ==
    /\ vmPhase = "translate"
    /\ vmIn.mode = "dir"
    /\ vmLine = 0
    /\ vmFile <= Len(vmIn.files)
    /\ ~HasVmExtension(vmIn.files[vmFile].name)
    /\ vmFile' = vmFile + 1
    /\ UNCHANGED <<vmIn, vmPhase, vmLine, asmText, writerVars, cpuVars, asmVars, jackVars>>

\* VMTranslator.c 47-62: setFile(entry->d_name).
VMOpenEntry ==
    /\ vmPhase = "translate"
    /\ vmIn.mode = "dir"
    /\ vmLine = 0
    /\ vmFile <= Len(vmIn.files)
    /\ HasVmExtension(vmIn.files[vmFile].name)
    /\ curr' = vmIn.files[vmFile].name
    /\ vmLine' = 1
    /\ UNCHANGED <<vmIn, vmPhase, vmFile, asmText, eqCounter, gtCounter, ltCounter,
                   returnCounter, currFunction, cpuVars, asmVars, jackVars>>

\* VMTranslator.c 141-169: the argument is a file; setFile(the name less ".vm").
VMOpenFile ==
    /\ vmPhase = "start"
    /\ vmIn.mode = "file"
    /\ HasVmExtension(vmIn.files[1].name)
    /\ curr' = SubSeq(vmIn.files[1].name, 1, Len(vmIn.files[1].name) - 3)
    /\ vmPhase' = "translate"
    /\ vmLine' = 1
    /\ UNCHANGED <<vmIn, vmFile, asmText, eqCounter, gtCounter, ltCounter,
                   returnCounter, currFunction, cpuVars, asmVars, jackVars>>

\* VMTranslator.c 143-146: return 1.
VMInvalidFileType ==
    /\ vmPhase = "start"
    /\ vmIn.mode = "file"
    /\ ~HasVmExtension(vmIn.files[1].name)
    /\ vmPhase' = "failed"
    /\ UNCHANGED <<vmIn, vmFile, vmLine, asmText, writerVars, cpuVars, asmVars, jackVars>>

VMReading ==
    /\ vmPhase = "translate"
    /\ vmFile <= Len(vmIn.files)
    /\ vmLine \in 1..Len(vmIn.files[vmFile].lines)

VMTrimmed == removeWhitespaceVM(vmIn.files[vmFile].lines[vmLine] \o "\n")

VMCommand == IF VMTrimmed = NULL THEN C_UNKNOWN ELSE getCommandTypeVM(VMTrimmed)

VMArg1 == getArg1(VMTrimmed, VMCommand)

VMArg2 == getArg2(VMTrimmed)

\* VMTranslator.c 65-68, 172-175.
VMSkipLine ==
    /\ VMReading
    /\ VMTrimmed = NULL
    /\ vmLine' = vmLine + 1
    /\ UNCHANGED <<vmIn, vmPhase, vmFile, asmText, writerVars, cpuVars, asmVars, jackVars>>

\* VMTranslator.c 70-77, 84-91, 94-101 and 177-205: return 1.
VMError ==
    /\ VMReading
    /\ VMTrimmed # NULL
    /\ IF VMCommand = C_UNKNOWN THEN TRUE
       ELSE IF VMCommand = C_RETURN THEN FALSE
       ELSE IF VMArg1 = NULL THEN TRUE
       ELSE IF VMCommand \in {C_PUSH, C_POP, C_FUNCTION, C_CALL} THEN VMArg2 = NULL
       ELSE FALSE
    /\ vmPhase' = "failed"
    /\ UNCHANGED <<vmIn, vmFile, vmLine, asmText, writerVars, cpuVars, asmVars, jackVars>>

\* VMTranslator.c 79-82, 185-188.
VMReturn ==
    /\ VMReading
    /\ VMTrimmed # NULL
    /\ VMCommand = C_RETURN
    /\ asmText' = asmText \o writeReturn
    /\ vmLine' = vmLine + 1
    /\ UNCHANGED <<vmIn, vmPhase, vmFile, writerVars, cpuVars, asmVars, jackVars>>

\* VMTranslator.c 103-104, 207-208.
VMPushPop ==
    /\ VMReading
    /\ VMTrimmed # NULL
    /\ VMCommand \in {C_PUSH, C_POP}
    /\ VMArg1 # NULL
    /\ VMArg2 # NULL
    /\ asmText' = asmText \o writePushPop(VMCommand, VMArg1, VMArg2, curr)
    /\ vmLine' = vmLine + 1
    /\ UNCHANGED <<vmIn, vmPhase, vmFile, writerVars, cpuVars, asmVars, jackVars>>

\* VMTranslator.c 105-106, 209-210; writeFunction calls setFunction.
VMFunction ==
    /\ VMReading
    /\ VMTrimmed # NULL
    /\ VMCommand = C_FUNCTION
    /\ VMArg1 # NULL
    /\ VMArg2 # NULL
    /\ asmText' = asmText \o writeFunction(VMArg1, atoi(VMArg2))
    /\ currFunction' = VMArg1
    /\ vmLine' = vmLine + 1
    /\ UNCHANGED <<vmIn, vmPhase, vmFile, eqCounter, gtCounter, ltCounter, returnCounter,
                   curr, cpuVars, asmVars, jackVars>>

\* VMTranslator.c 107-108, 211-212.
VMCall ==
    /\ VMReading
    /\ VMTrimmed # NULL
    /\ VMCommand = C_CALL
    /\ VMArg1 # NULL
    /\ VMArg2 # NULL
    /\ asmText' = asmText \o writeCall(returnCounter, VMArg1, atoi(VMArg2))
    /\ returnCounter' = returnCounter + 1
    /\ vmLine' = vmLine + 1
    /\ UNCHANGED <<vmIn, vmPhase, vmFile, eqCounter, gtCounter, ltCounter, curr,
                   currFunction, cpuVars, asmVars, jackVars>>

\* VMArithmetic without the increments of writeArithmetic's counters.
VMArithmeticUncounted ==
    /\ VMReading
    /\ VMTrimmed # NULL
    /\ VMCommand = C_ARITHMETIC
    /\ VMArg1 # NULL
    /\ asmText' = asmText \o writeArithmetic(VMArg1, eqCounter, gtCounter, ltCounter)
    /\ vmLine' = vmLine + 1
    /\ UNCHANGED <<vmIn, vmPhase, vmFile, writerVars, cpuVars, asmVars, jackVars>>

\* VMTranslator.c 117-118, 220-221.
VMArithmetic ==
    /\ VMReading
    /\ VMTrimmed # NULL
    /\ VMCommand = C_ARITHMETIC
    /\ VMArg1 # NULL
    /\ asmText' = asmText \o writeArithmetic(VMArg1, eqCounter, gtCounter, ltCounter)
    /\ eqCounter' = IF VMArg1 = "eq" THEN eqCounter + 1 ELSE eqCounter
    /\ gtCounter' = IF VMArg1 = "gt" THEN gtCounter + 1 ELSE gtCounter
    /\ ltCounter' = IF VMArg1 = "lt" THEN ltCounter + 1 ELSE ltCounter
    /\ vmLine' = vmLine + 1
    /\ UNCHANGED <<vmIn, vmPhase, vmFile, returnCounter, curr, currFunction, cpuVars, asmVars, jackVars>>

\* VMTranslator.c 119-124, 222-227.
VMBranch ==
    /\ VMReading
    /\ VMTrimmed # NULL
    /\ VMCommand \in {C_LABEL, C_GOTO, C_IF}
    /\ VMArg1 # NULL
    /\ asmText' = asmText \o (IF VMCommand = C_LABEL THEN writeLabel(currFunction, VMArg1)
                              ELSE IF VMCommand = C_GOTO THEN writeGoto(currFunction, VMArg1)
                              ELSE writeIf(currFunction, VMArg1))
    /\ vmLine' = vmLine + 1
    /\ UNCHANGED <<vmIn, vmPhase, vmFile, writerVars, cpuVars, asmVars, jackVars>>

\* VMTranslator.c 135: the end of a file of the directory.
VMCloseEntry ==
    /\ vmPhase = "translate"
    /\ vmIn.mode = "dir"
    /\ vmFile <= Len(vmIn.files)
    /\ vmLine > Len(vmIn.files[vmFile].lines)
    /\ vmFile' = vmFile + 1
    /\ vmLine' = 0
    /\ UNCHANGED <<vmIn, vmPhase, asmText, writerVars, cpuVars, asmVars, jackVars>>

\* VMTranslator.c 138-140, 237-239: return 0; the machine then runs the output.
VMFinish ==
    /\ vmPhase = "translate"
    /\ IF vmIn.mode = "dir" THEN vmFile > Len(vmIn.files)
       ELSE vmLine > Len(vmIn.files[1].lines)
    /\ vmPhase' = "run"
    /\ UNCHANGED <<vmIn, vmFile, vmLine, asmText, writerVars, cpuVars, asmVars, jackVars>>

(***************************************************************************)
(* The Hack machine: one action per instruction kind                       *)
(***************************************************************************)

CpuRunning ==
    /\ vmPhase = "run"
    /\ cpuPC < Len(Rom(asmText))
    /\ cpuTicks < MaxTicks

Fetched == Rom(asmText)[cpuPC + 1]

\* The first instruction of the code of a `return`.
AtReturn ==
    /\ Fetched = "@LCL"
    /\ cpuPC + 3 <= Len(Rom(asmText))
    /\ Rom(asmText)[cpuPC + 3] = "@R13"

\* @value: A = value.
CpuAddress ==
    /\ CpuRunning
    /\ Head(Fetched) = "@"
    /\ cpuA' = SymbolValue(asmText, Tail(Fetched)) % Word
    /\ cpuPC' = cpuPC + 1
    /\ cpuTicks' = cpuTicks + 1
    /\ callFrame' = IF snprintf(8, Fetched) = "@RETURN" /\ IsLabel(asmText, Tail(Fetched))
                    THEN Store(callFrame, Tail(Fetched), [i \in 0..4 |-> Mem(ram, i)])
                    ELSE callFrame
    /\ retValue' = IF AtReturn THEN Mem(ram, (Mem(ram, 0) + Word - 1) % Word) ELSE retValue
    /\ UNCHANGED <<vmIn, vmPhase, vmFile, vmLine, asmText, writerVars, cpuD, ram, asmVars, jackVars>>

\* dest=comp;jump: the ALU output goes to the registers of dest, the jump
\* tests its sign and continues at the address in A.
CpuCompute ==
    /\ CpuRunning
    /\ Head(Fetched) # "@"
    /\ LET dest == getDest(Fetched)
           jump == getJump(Fetched)
           out  == CompValue(getComp(Fetched), cpuA, cpuD, Mem(ram, cpuA))
       IN  /\ cpuA' = IF strchr(dest, "A") # 0 THEN out ELSE cpuA
           /\ cpuD' = IF strchr(dest, "D") # 0 THEN out ELSE cpuD
           /\ ram' = IF strchr(dest, "M") # 0 THEN Store(ram, cpuA, out) ELSE ram
           /\ cpuPC' = IF Sign(out) \in JumpSigns(jump) THEN cpuA ELSE cpuPC + 1
    /\ cpuTicks' = cpuTicks + 1
    /\ UNCHANGED <<vmIn, vmPhase, vmFile, vmLine, asmText, writerVars, callFrame, retValue,
                   asmVars, jackVars>>

NextVM ==
    \/ VMOpenDirectory
    \/ VMSkipEntry
    \/ VMOpenEntry
    \/ VMOpenFile
    \/ VMInvalidFileType
    \/ VMSkipLine
    \/ VMError
    \/ VMReturn
    \/ VMPushPop
    \/ VMFunction
    \/ VMCall
    \/ VMArithmetic
    \/ VMBranch
    \/ VMCloseEntry
    \/ VMFinish
    \/ CpuAddress
    \/ CpuCompute

SpecVM == InitVM /\ [][NextVM]_vars

\* CpuAddress or CpuCompute, seen on the count of instructions.
CpuTick == CpuRunning /\ cpuTicks' = cpuTicks + 1

\* The machine's clock does not stop: while there is an instruction to
\* execute the machine executes it.
SpecVMLive == SpecVM /\ WF_cpuTicks(CpuTick)

(***************************************************************************)
(* Claims about the VM translator                                          *)
(***************************************************************************)

\* The machine ran the whole output: the program counter is past its end.
Halted == vmPhase = "run" /\ cpuPC = Len(Rom(asmText))

\* The one command of an arithmetic case and the stack it started on.
TheCommand == vmIn.files[1].lines[1]

StartSP == vmIn.ram[0]

StackX == vmIn.ram[StartSP - 2]

StackY == vmIn.ram[StartSP - 1]

IsSumScenario ==
    /\ vmIn.files = <<File("Add.vm", <<"push constant 7", "push constant 8", "add">>)>>
    /\ vmIn.ram = (0 :> 256)

\* C6: after the code of add, sub, and, or has run SP is one less and the new
\* top of the stack is x+y, x-y, x&y, x|y modulo 2^16; after neg, not SP is the
\* same and the top is -y, !y; push constant 7, push constant 8, add from
\* SP=256 ends with SP=257 and RAM[256]=15.
C6_BinaryArithmetic ==
    /\ (Halted /\ vmIn \in ArithmeticCases /\ TheCommand \in {"add", "sub", "and", "or"}) =>
          /\ Mem(ram, 0) = StartSP - 1
          /\ Mem(ram, StartSP - 2) =
                (CASE TheCommand = "add" -> (StackX + StackY) % Word
                   [] TheCommand = "sub" -> (StackX - StackY + Word) % Word
                   [] TheCommand = "and" -> And16(StackX, StackY)
                   [] TheCommand = "or" -> Or16(StackX, StackY))
    /\ (Halted /\ vmIn \in ArithmeticCases /\ TheCommand \in {"neg", "not"}) =>
          /\ Mem(ram, 0) = StartSP
          /\ Mem(ram, StartSP - 2) = StackX
          /\ Mem(ram, StartSP - 1) =
                (IF TheCommand = "neg" THEN (Word - StackY) % Word ELSE Not16(StackY))
    /\ (Halted /\ IsSumScenario) => (Mem(ram, 0) = 257 /\ Mem(ram, 256) = 15)

C6_Witness ==
    /\ Halted
    /\ vmIn \in ArithmeticCases
    /\ TheCommand = "sub"
    /\ StackX = 7
    /\ StackY = 8
    /\ Mem(ram, 0) = StartSP - 1
    /\ Mem(ram, StartSP - 2) = 65535

\* The words as two's complement numbers.
Signed(word) == IF word >= Word \div 2 THEN word - Word ELSE word

Holds(command, x, y) ==
    CASE command = "eq" -> Signed(x) = Signed(y)
      [] command = "gt" -> Signed(x) > Signed(y)
      [] command = "lt" -> Signed(x) < Signed(y)

Compared == Halted /\ vmIn \in ArithmeticCases /\ TheCommand \in {"eq", "gt", "lt"}

\* C7 as stated: for all signed 16-bit x and y, eq, gt, lt leave SP one less
\* and -1 on the stack when x = y, x > y, x < y, and 0 otherwise.
C7_ComparisonsOfAllWords ==
    Compared =>
        /\ Mem(ram, 0) = StartSP - 1
        /\ Mem(ram, StartSP - 2) = (IF Holds(TheCommand, StackX, StackY) THEN Word - 1 ELSE 0)

\* x - y is a signed 16-bit number.
DifferenceFits == Signed(StackX) - Signed(StackY) \in (0 - Word \div 2)..(Word \div 2 - 1)

\* C7 (amended): eq, gt, lt leave SP one less; eq leaves -1 when x = y and 0
\* otherwise for all x, y; gt and lt leave -1 when x > y, x < y and 0 otherwise
\* whenever x - y fits in 16 signed bits, and the opposite answer when it
\* does not.
C7_Comparisons ==
    Compared =>
        /\ Mem(ram, 0) = StartSP - 1
        /\ Mem(ram, StartSP - 2) \in {0, Word - 1}
        /\ (Mem(ram, StartSP - 2) = Word - 1) <=>
              (IF TheCommand = "eq" \/ DifferenceFits
               THEN Holds(TheCommand, StackX, StackY)
               ELSE ~Holds(TheCommand, StackX, StackY))

C7_Witness ==
    /\ Compared
    /\ TheCommand = "gt"
    /\ StackX = 32767
    /\ StackY = 65535
    /\ Mem(ram, StartSP - 2) = 0
    /\ Mem(ram, 0) = StartSP - 1

\* The lines of the .vm files in the order they are translated.
RECURSIVE TranslatedLines(_)
TranslatedLines(files) ==
    IF files = <<>> THEN <<>>
    ELSE (IF HasVmExtension(Head(files).name) THEN Head(files).lines ELSE <<>>)
             \o TranslatedLines(Tail(files))

IsCallLine(line) == getCommandTypeVM(line) = C_CALL

\* The n of the `call f n` whose return label is RETURN<number>: the bootstrap
\* of a directory takes RETURN0.
ArgsOfCall(number) ==
    LET calls == SelectSeq(TranslatedLines(vmIn.files), IsCallLine)
        index == IF vmIn.mode = "dir" THEN number ELSE number + 1
    IN  atoi(getArg2(calls[index]))

\* The calls whose callee leaves one value on the stack and returns.
ReturningCalls == {0, 1}

CalleeReturns(number) ==
    \/ /\ vmIn \in CallCases
       /\ number = 0 \/ vmIn.files[1].lines \in {CallProgram(n, k, <<"push constant 3",
              "call g 1", "push constant 4", "add">>) : n \in 0..MaxArgs, k \in 0..MaxLocals}
    \/ vmIn \in DirectoryCases /\ number = 1

ReturnLabel(number) == "RETURN" \o Dec(number)

\* The machine is at the first instruction of the code of call <number>.
AtCall(number) ==
    /\ CalleeReturns(number)
    /\ CpuRunning
    /\ Fetched = "@" \o ReturnLabel(number)

\* The machine is at the return label of call <number>.
AtReturnLabel(number) ==
    /\ CalleeReturns(number)
    /\ vmPhase = "run"
    /\ IsLabel(asmText, ReturnLabel(number))
    /\ cpuPC = LabelAddress(asmText, ReturnLabel(number))

\* LCL, ARG, THIS, THAT are as before the call, SP is n - 1 less and the
\* callee's value is on top of the stack.
FrameRestored(number) ==
    /\ ReturnLabel(number) \in DOMAIN callFrame
    /\ LET before == callFrame[ReturnLabel(number)]
       IN  /\ \A i \in 1..4 : Mem(ram, i) = before[i]
           /\ Mem(ram, 0) = before[0] - ArgsOfCall(number) + 1
           /\ Mem(ram, Mem(ram, 0) - 1) = retValue

\* C1: the code of `call f n`, run through the callee's return, resumes at
\* the call's return label, and there LCL, ARG, THIS, THAT are as before the
\* call, SP is (SP before the call) - n + 1 and RAM[SP-1] is the callee's value.
C1_CallReturnRoundTrip ==
    /\ [](\A number \in ReturningCalls : AtReturnLabel(number) => FrameRestored(number))
    /\ \A number \in ReturningCalls : AtCall(number) ~> AtReturnLabel(number)

\* The call with no argument came back: the value took the place of the
\* return address.
C1_Witness ==
    /\ AtReturnLabel(0)
    /\ vmIn \in CallCases
    /\ ArgsOfCall(0) = 0
    /\ FrameRestored(0)
    /\ Mem(ram, 0) = 257
    /\ Mem(ram, 256) = 42

(***************************************************************************)
(* The Jack compiler: Config.h and JackTokenizer.c.  A tokenizer is the    *)
(* record [inputFile, token, type, hasMore]; inputFile is the text not yet *)
(* read.  overrun tells what strchr(SYMBOLS, c) finds behind SYMBOLS, an   *)
(* array without a terminating NUL, for a character that is not in it.     *)
(***************************************************************************)

MAX_TOKEN_LENGTH == 256

KEYWORDS == {"class", "constructor", "function", "method", "field", "static", "var",
             "int", "char", "boolean", "void", "true", "false", "null", "this",
             "let", "do", "if", "else", "while", "return"}

SYMBOLS == "{}()[].,;+-*/&|<>=~"

INVALID == -1
KEYWORD == 0
SYMBOL == 1
INTEGER_CONSTANT == 2
STRING_CONSTANT == 3
IDENTIFIER == 4

STATIC == 0
FIELD == 1
ARG == 2
VAR == 3

\* The text from the first character that is neither white space nor in a
\* comment; "" at the end of the file.
RECURSIVE skipJunk(_)
skipJunk(file) ==
    IF file = "" THEN ""
    ELSE IF isspace(Head(file)) THEN skipJunk(Tail(file))
    ELSE IF Head(file) = "/" /\ Len(file) >= 2 /\ Ch(file, 2) = "/"
    THEN IF strchr(file, "\n") = 0 THEN ""
         ELSE skipJunk(SubSeq(file, strchr(file, "\n") + 1, Len(file)))
    ELSE IF Head(file) = "/" /\ Len(file) >= 2 /\ Ch(file, 2) = "*"
    THEN LET rest == SubSeq(file, 3, Len(file))
         IN  IF strstr(rest, "*/") = 0 THEN ""
             ELSE skipJunk(SubSeq(rest, strstr(rest, "*/") + 2, Len(rest)))
    ELSE file

Letters == "abcdefghijklmnopqrstuvwxyzABCDEFGHIJKLMNOPQRSTUVWXYZ"

Digits == "0123456789"

\* The characters fgetc returns while the loop goes on: while they are among
\* chars (among = TRUE), or while they are not (among = FALSE).
RECURSIVE Span(_, _, _)
Span(file, chars, among) ==
    IF file = "" THEN ""
    ELSE IF (strchr(chars, Head(file)) # 0) = among
    THEN Head(file) \o Span(Tail(file), chars, among)
    ELSE ""

advance(jackTokenizer) ==
    LET Token(file, text, type) ==
            [jackTokenizer EXCEPT !.inputFile = SubSeq(file, Len(text) + 1, Len(file)),
                                  !.type = type,
                                  !.token = snprintf(MAX_TOKEN_LENGTH, text)]
        \* stop: the file from the character that ended the string
        String(body, stop) ==
            IF stop # "" /\ Head(stop) = "\""
            THEN [jackTokenizer EXCEPT !.inputFile = Tail(stop), !.type = STRING_CONSTANT,
                                       !.token = snprintf(MAX_TOKEN_LENGTH, body)]
            \* no closing quote: the characters were stored over the old
            \* token and no NUL was written after them
            ELSE [jackTokenizer EXCEPT
                     !.inputFile = IF stop = "" THEN "" ELSE Tail(stop),
                     !.hasMore = FALSE,
                     !.token = snprintf(MAX_TOKEN_LENGTH, body)
                                   \o SubSeq(@, Len(body) + 1, Len(@))]
        Quoted(file, body) == String(body, SubSeq(file, Len(body) + 2, Len(file)))
        Name(file, word) ==
            Token(file, word, IF word \in KEYWORDS THEN KEYWORD ELSE IDENTIFIER)
        Scan(file) ==
            IF file = "" THEN [jackTokenizer EXCEPT !.inputFile = "", !.hasMore = FALSE]
            ELSE IF Head(file) = "\"" THEN Quoted(file, Span(Tail(file), "\"\n", FALSE))
            ELSE IF IsDigit(Head(file))
            THEN Token(file, Span(file, Digits, TRUE), INTEGER_CONSTANT)
            ELSE IF strchr(Letters \o "_", Head(file)) # 0
            THEN Name(file, Span(file, Letters \o Digits \o "_", TRUE))
            ELSE IF strchr(SYMBOLS, Head(file)) # 0 \/ jackTokenizer.overrun
            THEN Token(file, Head(file), SYMBOL)
            ELSE [jackTokenizer EXCEPT !.inputFile = Tail(file), !.hasMore = FALSE]
    IN  Scan(skipJunk(jackTokenizer.inputFile))

initJackTokenizer(inputFile, overrun) ==
    [inputFile |-> inputFile, token |-> "", type |-> INVALID, hasMore |-> TRUE,
     overrun |-> overrun]

(***************************************************************************)
(* The Jack compiler: SymbolTable.c.  A table is the sequence of entries.  *)
(***************************************************************************)

varCount(table, kind) ==
    Cardinality({i \in 1..Len(table) : table[i].kind = kind})

define(table, name, type, kind) ==
    Append(table, [name |-> name, type |-> type, kind |-> kind,
                         index |-> varCount(table, kind)])

\* The first entry of the name, 0 when there is none.
find(table, name) ==
    LET named == {i \in 1..Len(table) : table[i].name = name}
    IN  IF named = {} THEN 0 ELSE CHOOSE i \in named : \A j \in named : i <= j

kindOf(table, name) ==
    IF find(table, name) = 0 THEN -1 ELSE table[find(table, name)].kind

indexOf(table, name) ==
    IF find(table, name) = 0 THEN -1 ELSE table[find(table, name)].index

kindToSegment(kind) ==
    CASE kind = STATIC -> "static"
      [] kind = FIELD -> "this"
      [] kind = ARG -> "argument"
      [] kind = VAR -> "local"
      [] OTHER -> "unknown"

(***************************************************************************)
(* The Jack compiler: Utils.c and VMWriter.c.  e is the CompilationEngine; *)
(* after exit(1) nothing runs: every call on an engine that has exited     *)
(* returns it as it is.                                                    *)
(***************************************************************************)

exit(e) == [e EXCEPT !.exited = TRUE]

\* fprintf(compilationEngine->outputFile, ...) of writeVMPush, writeVMPop,
\* writeVMArithmetic, writeVMLabel, writeVMGoto, writeVMIf, writeVMCall,
\* writeVMFunction and writeVMReturn.
fprintf(e, line) == IF e.exited THEN e ELSE [e EXCEPT !.outputFile = Append(@, line)]

writeVMPush(e, segment, index) == fprintf(e, "push " \o segment \o " " \o Dec(index))

writeVMPop(e, segment, index) == fprintf(e, "pop " \o segment \o " " \o Dec(index))

hasMoreTokens(e) == ~e.exited /\ e.jackTokenizer.hasMore

getToken(e) == e.jackTokenizer.token

\* advance(compilationEngine->jackTokenizer)
next(e) == IF e.exited THEN e ELSE [e EXCEPT !.jackTokenizer = advance(@)]

require(e, expectedType, expectedValue) ==
    IF e.exited THEN e
    ELSE IF ~hasMoreTokens(e) THEN exit(e)
    ELSE IF e.jackTokenizer.type # expectedType THEN exit(e)
    ELSE IF expectedValue # NULL /\ getToken(e) # expectedValue THEN exit(e)
    ELSE next(e)

requireSymbol(e, symbol) == require(e, SYMBOL, symbol)

requireKeyword(e, keyword) == require(e, KEYWORD, keyword)

requireIdentifier(e) == require(e, IDENTIFIER, NULL)

checkKeyword(e, keyword) ==
    hasMoreTokens(e) /\ e.jackTokenizer.type = KEYWORD /\ getToken(e) = keyword

checkSymbol(e, symbol) ==
    hasMoreTokens(e) /\ e.jackTokenizer.type = SYMBOL /\ getToken(e) = symbol

checkIdentifier(e) == hasMoreTokens(e) /\ e.jackTokenizer.type = IDENTIFIER

isType(e) ==
    /\ hasMoreTokens(e)
    /\ IF e.jackTokenizer.type = KEYWORD
       THEN getToken(e) \in {"int", "char", "boolean", "void"}
       ELSE e.jackTokenizer.type = IDENTIFIER

isClassVarDec(e) == checkKeyword(e, "static") \/ checkKeyword(e, "field")

isSubroutine(e) ==
    checkKeyword(e, "constructor") \/ checkKeyword(e, "function") \/ checkKeyword(e, "method")

isVarDec(e) == checkKeyword(e, "var")

isStatement(e) ==
    \E keyword \in {"let", "if", "while", "do", "return"} : checkKeyword(e, keyword)

isTerm(e) ==
    /\ hasMoreTokens(e)
    /\ \/ e.jackTokenizer.type \in {INTEGER_CONSTANT, STRING_CONSTANT}
       \/ checkIdentifier(e)
       \/ checkSymbol(e, "(") \/ checkSymbol(e, "-") \/ checkSymbol(e, "~")
       \/ e.jackTokenizer.type = KEYWORD /\ getToken(e) \in {"true", "false", "null", "this"}

isOp(e) ==
    /\ hasMoreTokens(e)
    /\ e.jackTokenizer.type = SYMBOL
    /\ strchr("+-*/&|<>=", Head(getToken(e))) # 0

\* generateLabel that does not read the counter.
generateLabelSame(e, prefix) == snprintf(100, prefix \o "_0")

\* generateLabel(compilationEngine->vmWriter, prefix): the label; the caller
\* counts it with labelled(e).
generateLabel(e, prefix) == snprintf(100, prefix \o "_" \o Dec(e.vmWriter.labelCounter))

labelled(e) == IF e.exited THEN e ELSE [e EXCEPT !.vmWriter.labelCounter = @ + 1]

(***************************************************************************)
(* The Jack compiler: Expressions.c, Statements.c, Declarations.c and      *)
(* CompilationEngine.c.  getToken returns the address of the tokenizer's   *)
(* buffer: a char * kept from it (op, varName, name, type) reads the token *)
(* that is current when it is used, and only a strdup of it keeps the      *)
(* token it was taken from.  The operators of a LET are the rest of the    *)
(* function from the engine a call has returned.                           *)
(***************************************************************************)

RECURSIVE parseTerm(_), parseExpression(_), parseOps(_), parseExpressionList(_),
          parseArguments(_, _), parseSubroutineCall(_), parseStatements(_),
          parseIf(_), parseWhile(_)

\* kindOf and indexOf in the subroutine's table, then in the class's, and the
\* push of the variable when it is found (parseTerm).
pushVariable(e, varName) ==
    LET inSubroutine == kindOf(e.subroutineSymbolTable, varName)
        kind == IF inSubroutine = -1 THEN kindOf(e.classSymbolTable, varName)
                ELSE inSubroutine
        ofSubroutine == indexOf(e.subroutineSymbolTable, varName)
        index == IF ofSubroutine = -1 THEN indexOf(e.classSymbolTable, varName)
                 ELSE ofSubroutine
    IN  IF kind # -1 THEN writeVMPush(e, kindToSegment(kind), index) ELSE e

parseSubroutineCall(e) ==
    LET Dotted(named) ==
            IF checkSymbol(named, ".") THEN requireIdentifier(requireSymbol(named, "."))
            ELSE named
    IN  requireSymbol(parseExpressionList(requireSymbol(
            Dotted(IF checkIdentifier(e) THEN requireIdentifier(e) ELSE e), "(")), ")")

parseTerm(e) ==
    LET currentToken == getToken(e)
        \* op points at the buffer: it reads the token after the term
        Unary(term) ==
            LET op == getToken(term)
            IN  IF op = "-" THEN fprintf(term, "neg")
                ELSE IF op = "~" THEN fprintf(term, "not")
                ELSE term
        \* varName points at the buffer: it reads the token after "]"
        Element(indexed) ==
            LET varName == getToken(indexed)
            IN  writeVMPush(writeVMPop(fprintf(pushVariable(indexed, varName), "add"),
                                       "pointer", 1), "that", 0)
        \* varName points at the buffer: it reads the token after the name
        Named(named) ==
            IF checkSymbol(named, "[")
            THEN Element(requireSymbol(parseExpression(requireSymbol(named, "[")), "]"))
            ELSE IF checkSymbol(named, "(") \/ checkSymbol(named, ".")
            THEN parseSubroutineCall(named)
            ELSE pushVariable(named, getToken(named))
    IN  IF e.jackTokenizer.type = INTEGER_CONSTANT
        THEN next(writeVMPush(e, "constant", atoi(currentToken)))
        ELSE IF e.jackTokenizer.type = STRING_CONSTANT
        THEN next(writeVMPush(e, "constant", 0))
        ELSE IF e.jackTokenizer.type = KEYWORD
        THEN next(IF currentToken = "true"
                  THEN fprintf(writeVMPush(e, "constant", 0), "not")
                  ELSE IF currentToken \in {"false", "null"}
                  THEN writeVMPush(e, "constant", 0)
                  ELSE IF currentToken = "this" THEN writeVMPush(e, "pointer", 0)
                  ELSE e)
        ELSE IF checkSymbol(e, "(")
        THEN requireSymbol(parseExpression(requireSymbol(e, "(")), ")")
        ELSE IF checkSymbol(e, "-") \/ checkSymbol(e, "~") THEN Unary(parseTerm(next(e)))
        ELSE IF checkIdentifier(e) THEN Named(next(e))
        ELSE e

\* The while loop of parseExpression.
parseOps(e) ==
    LET \* op points at the buffer: it reads the token after the term
        Command(term) ==
            LET op == getToken(term)
            IN  CASE op = "+" -> fprintf(term, "add")
                  [] op = "-" -> fprintf(term, "sub")
                  [] op = "*" -> fprintf(term, "call Math.multiply 2")
                  [] op = "/" -> fprintf(term, "call Math.divide 2")
                  [] op = "&" -> fprintf(term, "and")
                  [] op = "|" -> fprintf(term, "or")
                  [] op = "<" -> fprintf(term, "lt")
                  [] op = ">" -> fprintf(term, "gt")
                  [] op = "=" -> fprintf(term, "eq")
                  [] OTHER -> term
    IN  IF isOp(e) THEN parseOps(Command(parseTerm(next(e)))) ELSE e

parseExpression(e) == parseOps(parseTerm(e))

\* The while loop of parseExpressionList: e with argCount expressions parsed.
parseArguments(e, argCount) ==
    IF checkSymbol(e, ",")
    THEN parseArguments(parseExpression(requireSymbol(e, ",")), argCount + 1)
    ELSE IF e.exited THEN e ELSE [e EXCEPT !.labelCounter = argCount]

parseExpressionList(e) ==
    IF isTerm(e) THEN parseArguments(parseExpression(e), 1)
    ELSE IF e.exited THEN e ELSE [e EXCEPT !.labelCounter = 0]

parseLet(e) ==
    LET Assign(valued, varName) ==
            LET inSubroutine == kindOf(valued.subroutineSymbolTable, varName)
                kind == IF inSubroutine # -1 THEN inSubroutine
                        ELSE kindOf(valued.classSymbolTable, varName)
                index == IF inSubroutine # -1
                         THEN indexOf(valued.subroutineSymbolTable, varName)
                         ELSE indexOf(valued.classSymbolTable, varName)
            IN  IF kind # -1 /\ index # -1
                THEN writeVMPop(valued, kindToSegment(kind), index)
                ELSE valued
        Indexed(named) ==
            IF checkSymbol(named, "[")
            THEN fprintf(requireSymbol(parseExpression(requireSymbol(named, "[")), "]"),
                         "add")
            ELSE named
        \* varName is a strdup of the token after "let"
        Target(let) ==
            Assign(requireSymbol(parseExpression(requireSymbol(Indexed(next(let)), "=")),
                                 ";"),
                   getToken(let))
    IN  Target(requireKeyword(e, "let"))

parseIf(e) ==
    LET Else(then) ==
            IF checkKeyword(then, "else")
            THEN requireSymbol(parseStatements(requireSymbol(next(then), "{")), "}")
            ELSE then
        Then(tested, label1, label3) ==
            fprintf(Else(fprintf(fprintf(
                        requireSymbol(parseStatements(requireSymbol(
                            fprintf(fprintf(tested, "not"), "if-goto " \o label1),
                            "{")), "}"),
                        "goto " \o label3), "label " \o label1)),
                    "label " \o label3)
        If(if) ==
            Then(requireSymbol(parseExpression(requireSymbol(
                     labelled(labelled(labelled(if))), "(")), ")"),
                 generateLabel(if, "IF_TRUE"),
                 generateLabel(labelled(labelled(if)), "IF_END"))
    IN  If(requireKeyword(e, "if"))

parseWhile(e) ==
    LET Body(tested, label1, label2) ==
            fprintf(fprintf(
                requireSymbol(parseStatements(requireSymbol(
                    fprintf(fprintf(tested, "not"), "if-goto " \o label2), "{")), "}"),
                "goto " \o label1), "label " \o label2)
        Loop(while, label1) ==
            Body(requireSymbol(parseExpression(requireSymbol(
                     fprintf(labelled(labelled(while)), "label " \o label1), "(")), ")"),
                 label1,
                 generateLabel(labelled(while), "WHILE_END"))
        While(while) == Loop(while, generateLabel(while, "WHILE_EXP"))
    IN  While(requireKeyword(e, "while"))

parseDo(e) ==
    writeVMPop(requireSymbol(parseSubroutineCall(requireKeyword(e, "do")), ";"), "temp", 0)

parseReturn(e) ==
    LET Value(return) ==
            IF ~checkSymbol(return, ";") THEN parseExpression(return)
            ELSE writeVMPush(return, "constant", 0)
    IN  fprintf(requireSymbol(Value(requireKeyword(e, "return")), ";"), "return")

parseStatements(e) ==
    IF ~isStatement(e) THEN e
    ELSE parseStatements(
             CASE checkKeyword(e, "let") -> parseLet(e)
               [] checkKeyword(e, "if") -> parseIf(e)
               [] checkKeyword(e, "while") -> parseWhile(e)
               [] checkKeyword(e, "do") -> parseDo(e)
               [] checkKeyword(e, "return") -> parseReturn(e))

RECURSIVE parseClassVarNames(_, _), parseParameters(_), parseVarNames(_, _), parseVarDecs(_)

\* define(table, name, type, kind) of an engine that has not exited.
defined(e, table, name, type, kind) ==
    IF e.exited THEN e
    ELSE IF table = "class"
    THEN [e EXCEPT !.classSymbolTable = define(@, name, type, kind)]
    ELSE [e EXCEPT !.subroutineSymbolTable = define(@, name, type, kind)]

\* The while loop of parseClassVarDec.
parseClassVarNames(e, varKind) ==
    LET \* name and type point at the buffer: they read the token after the name
        Define(named) == defined(named, "class", getToken(named), getToken(named), varKind)
    IN  IF checkSymbol(e, ",")
        THEN parseClassVarNames(Define(next(requireSymbol(e, ","))), varKind)
        ELSE e

\* parseClassVarDec that reads no token.
parseClassVarDecStaying(e) == e

parseClassVarDec(e) ==
    LET varKind == IF getToken(e) = "static" THEN STATIC ELSE FIELD
        \* name and type point at the buffer: they read the token after the name
        Define(named) == defined(named, "class", getToken(named), getToken(named), varKind)
    IN  requireSymbol(parseClassVarNames(Define(next(next(next(e)))), varKind), ";")

\* The while loop of parseParameterList.
parseParameters(e) ==
    LET Define(named) == defined(named, "subroutine", getToken(named), getToken(named), ARG)
    IN  IF checkSymbol(e, ",")
        THEN parseParameters(Define(next(next(requireSymbol(e, ",")))))
        ELSE e

parseParameterList(e) ==
    LET \* name and type point at the buffer: they read the token after the name
        Define(named) == defined(named, "subroutine", getToken(named), getToken(named), ARG)
    IN  IF isType(e) THEN parseParameters(Define(next(next(e)))) ELSE e

\* The while loop of parseVarDec: type is a copy, name points at the buffer.
parseVarNames(e, type) ==
    LET Define(named) == defined(named, "subroutine", getToken(named), type, VAR)
    IN  IF checkSymbol(e, ",")
        THEN parseVarNames(Define(next(requireSymbol(e, ","))), type)
        ELSE e

parseVarDec(e) ==
    LET \* type and name are copies of the tokens
        Name(name, type) ==
            requireSymbol(parseVarNames(
                defined(next(name), "subroutine", getToken(name), type, VAR), type), ";")
        Type(type) == Name(next(type), getToken(type))
    IN  Type(requireKeyword(e, "var"))

\* The while loop of parseSubroutineBody.
parseVarDecs(e) == IF isVarDec(e) THEN parseVarDecs(parseVarDec(e)) ELSE e

parseSubroutineBody(e) ==
    LET Function(declared) ==
            LET fullFunctionName ==
                    snprintf(256, declared.className \o "." \o declared.currentFunctionName)
            IN  fprintf(declared, "function " \o fullFunctionName \o " "
                            \o Dec(varCount(declared.subroutineSymbolTable, VAR)))
    IN  requireSymbol(parseStatements(Function(parseVarDecs(requireSymbol(e, "{")))), "}")

\* parseSubroutine that keeps the subroutine table of the subroutine before.
parseSubroutineKeeping(e) ==
    LET Name(name) ==
            next([name EXCEPT !.currentFunctionName = getToken(name),
                              !.vmWriter.functionName = getToken(name)])
    IN  parseSubroutineBody(requireSymbol(parseParameterList(requireSymbol(
            Name(next(next(e))), "(")), ")"))

parseSubroutine(e) ==
    LET \* currentFunctionName is a strdup of the third token
        Name(name) ==
            next([name EXCEPT !.currentFunctionName = getToken(name),
                              !.vmWriter.functionName = getToken(name)])
    IN  parseSubroutineBody(requireSymbol(parseParameterList(requireSymbol(
            Name(next(next([e EXCEPT !.subroutineSymbolTable = <<>>]))), "(")), ")"))

initCompilationEngine(inputFile, overrun) ==
    [outputFile |-> <<>>,
     jackTokenizer |-> advance(initJackTokenizer(inputFile, overrun)),
     classSymbolTable |-> <<>>,
     subroutineSymbolTable |-> <<>>,
     vmWriter |-> [className |-> NULL, functionName |-> NULL, labelCounter |-> 0],
     className |-> NULL,
     currentFunctionName |-> NULL,
     labelCounter |-> 0,
     exited |-> FALSE]

\* compileClass up to the first while loop.
compileClass(e) ==
    LET \* className is a strdup of the token after "class"
        Name(class) ==
            IF class.exited THEN class
            ELSE [class EXCEPT !.className = getToken(class),
                               !.vmWriter.className = getToken(class)]
    IN  requireSymbol(requireIdentifier(Name(requireKeyword(e, "class"))), "{")

(***************************************************************************)
(* The Jack compiler: the arguments of the command line.  about describes  *)
(* the program the text was written from.                                  *)
(***************************************************************************)

MaxTerms == 3

MaxArguments == 2

Operators == {"+", "-", "*", "/", "&", "|", "<", ">", "="}

Unaries == {"", "-", "~"}

Jack(name, text) == [name |-> name, text |-> text]

JackFile(text, about) ==
    [directory |-> FALSE, entries |-> <<Jack("Main.jack", text)>>,
     overrun |-> FALSE, about |-> about]

JackProgram(declarations, statements) ==
    "class Main {\n  function void main() {\n" \o declarations \o statements
        \o "    return;\n  }\n}\n"

\* " op2 2 op3 3 ..." and "1, 2, ..."
RECURSIVE Operands(_, _)
Operands(ops, k) ==
    IF ops = <<>> THEN ""
    ELSE " " \o Head(ops) \o " " \o Dec(k) \o Operands(Tail(ops), k + 1)

RECURSIVE Listed(_, _)
Listed(k, n) ==
    IF k > n THEN "" ELSE IF k = n THEN Dec(k) ELSE Dec(k) \o ", " \o Listed(k + 1, n)

\* let x = [unary] 1 op 2 op 3 ...;
ExpressionCases ==
    {JackFile(JackProgram("    var int x;\n",
                  "    let x = " \o unary \o "1" \o Operands(ops, 2) \o ";\n"),
              [shape |-> "expression", unary |-> unary, ops |-> ops]) :
        unary \in Unaries, ops \in UNION {[1..n -> Operators] : n \in 0..(MaxTerms - 1)}}

\* do f(1, 2); do p.f(1); do Output.f(); let x = f(1);
JackCallCases ==
    {JackFile(JackProgram("    var int x;\n    var Point p;\n",
                  "    " \o (IF statement = "do" THEN "do " ELSE "let x = ")
                         \o (IF receiver = "" THEN "" ELSE receiver \o ".")
                         \o "f(" \o Listed(1, n) \o ");\n"),
              [shape |-> "call", statement |-> statement, receiver |-> receiver,
               nArgs |-> n]) :
        statement \in {"do", "let"}, receiver \in {"", "p", "Output"},
        n \in 0..MaxArguments}

\* let a[i] = e; with a at local 0 and i at local 1
ArrayCases ==
    {JackFile(JackProgram("    var Array a;\n    var int i;\n",
                  "    let a[" \o index \o "] = " \o value \o ";\n"),
              [shape |-> "array", index |-> index, value |-> value]) :
        index \in {"i", "0", "1"}, value \in {"5", "i", "a[i]+1"}}

OtherSources ==
    {"",
     "// nothing\n",
     "/* nothing",
     "\"Main",
     "class",
     "#",
     "class Main {\n}\n",
     "class Main { # }",
     "class 5 {\n}\n",
     "class Main {\n  field int x, y;\n  static boolean on;\n"
        \o "  method int get(int k, Main m) {\n    return x;\n  }\n}\n",
     "class Main {\n  field int x;\n  function void main() { return; }\n"
        \o "  static int y;\n}\n",
     "class Main {\n  function void main() {\n    var int x, y;\n"
        \o "    if (x) { let y = 1; } else { let y = 2; }\n"
        \o "    while (~y) { do Output.printString(\"no\"); }\n    return;\n  }\n}\n",
     "class Main {\n  /** entry */\n  function void main() {\n    let x 1;\n  }\n}\n",
     "class Main {\n  constructor Main new() {\n    return this;\n  }\n"
        \o "  function int one() {\n    return (1);\n  }\n"}

JackOtherCases ==
    {[directory |-> FALSE, entries |-> <<Jack(name, text)>>, overrun |-> overrun,
      about |-> [shape |-> "other"]] :
        name \in {"Main.jack", "Main.vm"}, text \in OtherSources, overrun \in BOOLEAN}
    \cup
    {[directory |-> TRUE, entries |-> entries, overrun |-> FALSE,
      about |-> [shape |-> "other"]] :
        entries \in {<<>>,
                     <<Jack("Main.jack", JackProgram("", "")), Jack("README.md", "#"),
                       Jack("Point.jack", "class Point {\n  field int x;\n}\n")>>,
                     <<Jack("Bad.jack", "class {"), Jack("Main.jack", JackProgram("", ""))>>,
                     <<Jack("Main.jack", JackProgram("", "")), Jack("Empty.jack", "")>>}}

MaxNames == 2

\* "c1, c2, ..., cn"
RECURSIVE Names(_, _, _)
Names(prefix, k, n) ==
    IF k > n THEN ""
    ELSE IF k = n THEN prefix \o Dec(k)
    ELSE prefix \o Dec(k) \o ", " \o Names(prefix, k + 1, n)

\* "char p1, char p2, ..., char pn"
RECURSIVE Parameters(_, _)
Parameters(k, n) ==
    IF k > n THEN ""
    ELSE IF k = n THEN "char p" \o Dec(k)
    ELSE "char p" \o Dec(k) \o ", " \o Parameters(k + 1, n)

\* class Main { (static|field) boolean c1, ...; (constructor|function|method)
\* T sub(char p1, ...) { var int v1, ...; let target = 1; return; } }
DeclarationText(about) ==
    "class Main {\n"
        \o (IF about.nClass = 0 THEN ""
            ELSE "  " \o about.classKind \o " boolean " \o Names("c", 1, about.nClass) \o ";\n")
        \o "  " \o about.subroutine
        \o (IF about.subroutine = "constructor" THEN " Main" ELSE " void")
        \o " sub(" \o Parameters(1, about.nParams) \o ") {\n"
        \o (IF about.nVars = 0 THEN ""
            ELSE "    var int " \o Names("v", 1, about.nVars) \o ";\n")
        \o (IF about.target = "" THEN "" ELSE "    let " \o about.target \o " = 1;\n")
        \o (IF about.subroutine = "constructor" THEN "    return this;\n"
            ELSE "    return;\n")
        \o "  }\n}\n"

DeclarationCases ==
    {JackFile(DeclarationText(about), about) :
        about \in {a \in [shape : {"declaration"}, classKind : {"static", "field"},
                          nClass : 0..MaxNames, subroutine : {"constructor", "function", "method"},
                          nParams : 0..MaxNames, nVars : 0..MaxNames,
                          target : {""} \cup {prefix \o Dec(i) :
                                                 prefix \in {"c", "p", "v"}, i \in 1..MaxNames}] :
                      \/ a.target = ""
                      \/ \E i \in 1..a.nClass : a.target = "c" \o Dec(i)
                      \/ \E i \in 1..a.nParams : a.target = "p" \o Dec(i)
                      \/ \E i \in 1..a.nVars : a.target = "v" \o Dec(i)}}

\* One token that its production does not allow, and the number of lines
\* written when the parser reaches it.
Mismatches ==
    {<<"classVarDec type", "class Main {\n  field 5 x;\n}\n", 0>>,
     <<"classVarDec name", "class Main {\n  static int 7;\n}\n", 0>>,
     <<"parameter type", "class Main {\n  function void f(5 x) {\n    return;\n  }\n}\n", 0>>,
     <<"parameter name", "class Main {\n  function void f(int 5) {\n    return;\n  }\n}\n", 0>>,
     <<"varDec type", "class Main {\n  function void f() {\n    var 5 x;\n    return;\n  }\n}\n", 0>>,
     <<"varDec name", "class Main {\n  function void f() {\n    var int 5;\n    return;\n  }\n}\n", 0>>,
     <<"let target", "class Main {\n  function void f() {\n    let 5 = 1;\n    return;\n  }\n}\n", 1>>,
     <<"let =", "class Main {\n  function void f() {\n    var int x;\n    let x 1;\n    return;\n  }\n}\n", 1>>,
     <<"class name", "class 5 {\n  function void f() {\n    return;\n  }\n}\n", 0>>,
     <<"subroutine name", "class Main {\n  function void 5() {\n    return;\n  }\n}\n", 0>>,
     <<"return ;", "class Main {\n  function void f() {\n    return }\n}\n", 1>>}

MismatchCases ==
    {JackFile(m[2], [shape |-> "mismatch", at |-> m[1], written |-> m[3]]) : m \in Mismatches}

\* What the tokenizer cannot read: an invalid character, a string constant
\* without its closing quote, a block comment without its end.
Unreadable == {"#", "\"open", "\"open\n\"", "/* open", "/** open *"}

\* The places of a class where the tokenizer meets it.
LexerSources(u) ==
    {u \o "\nclass Main {\n}\n",
     "class " \o u,
     "class Main " \o u \o " {\n}\n",
     "class Main {\n  field int x " \o u \o ";\n}\n",
     "class Main {\n  function void f() {\n    return " \o u \o ";\n  }\n}\n",
     "class Main {\n  function void f() {\n    while (1 + " \o u
         \o ") {\n    }\n    return;\n  }\n}\n",
     "class Main {\n  function void f() {\n    return;\n  }\n  " \o u,
     "class Main {\n  function void f() {\n    return;\n  }\n}\n" \o u,
     "class Main {\n}" \o u}

LexerCases ==
    UNION {{JackFile(text, [shape |-> "lexer", unreadable |-> u]) : text \in LexerSources(u)} :
              u \in Unreadable}

MaxStatements == 2

\* if, if-else and while around the statements inner.
Control(inner) ==
    {"if (x) { " \o inner \o "} ",
     "if (x) { " \o inner \o "} else { " \o inner \o "} ",
     "while (x) { " \o inner \o "} "}

ControlStatements == UNION {Control(inner) : inner \in {""} \cup Control("")}

RECURSIVE Joined(_)
Joined(statements) ==
    IF statements = <<>> THEN "" ELSE Head(statements) \o Joined(Tail(statements))

ControlFunction(name, statements) ==
    "  function void " \o name \o "() {\n    var boolean x;\n    " \o statements
        \o "\n    return;\n  }\n"

\* A class of two functions: a sequence of nested ifs and whiles, then one
\* more if or while or none.
ControlCases ==
    {JackFile("class Main {\n" \o ControlFunction("f", Joined(first))
                  \o ControlFunction("g", second) \o "}\n",
              [shape |-> "control", statements |-> Len(first)]) :
        first \in UNION {[1..n -> ControlStatements] : n \in 1..MaxStatements},
        second \in {""} \cup Control("")}

\* "    var int a1, ..., an;" for each n of sizes, the names of the k-th
\* declaration beginning with the k-th letter.
RECURSIVE VarDecs(_, _)
VarDecs(sizes, k) ==
    IF sizes = <<>> THEN ""
    ELSE "    var int " \o Names(Ch("abc", k), 1, Head(sizes)) \o ";\n"
             \o VarDecs(Tail(sizes), k + 1)

RECURSIVE Sum(_)
Sum(sizes) == IF sizes = <<>> THEN 0 ELSE Head(sizes) + Sum(Tail(sizes))

HeaderSubroutine(kind, name, sizes) ==
    "  " \o kind \o " void " \o name \o "() {\n" \o VarDecs(sizes, 1) \o "    return;\n  }\n"

\* A class of two subroutines, each with up to two var declarations.
HeaderCases ==
    {JackFile("class Main {\n" \o HeaderSubroutine(kind, "first", f)
                  \o HeaderSubroutine("function", "second", g) \o "}\n",
              [shape |-> "header", first |-> Sum(f), second |-> Sum(g)]) :
        kind \in {"constructor", "function", "method"},
        f \in UNION {[1..n -> 1..MaxNames] : n \in 0..2},
        g \in UNION {[1..n -> 1..MaxNames] : n \in 0..2}}

JackCases ==
    ExpressionCases \cup JackCallCases \cup ArrayCases \cup DeclarationCases
        \cup MismatchCases \cup LexerCases \cup ControlCases \cup HeaderCases
        \cup JackOtherCases

(***************************************************************************)
(* The Jack compiler: JackCompiler.c, main.                                *)
(***************************************************************************)

\* strrchr(name, '.') finds the extension ".jack".
HasJackExtension(name) ==
    LET dots == {i \in 1..Len(name) : Ch(name, i) = "."}
        last == CHOOSE i \in dots : \A j \in dots : j <= i
    IN  IF dots = {} THEN FALSE ELSE SubSeq(name, last, Len(name)) = ".jack"

\* char outputFileName[strlen(fileName)]; snprintf(..., "%.*s.vm", strlen - 5, fileName)
outputFileName(fileName) ==
    snprintf(Len(fileName), SubSeq(fileName, 1, Len(fileName) - 5) \o ".vm")

InitJack ==
    /\ jackIn \in JackCases
    /\ jackPhase = "start"
    /\ jackEntry = 1
    /\ compilationEngine = NULL
    /\ vmOut = <<>>
    /\ AsmIdle
    /\ VMIdle

\* The engine after a step of compileClass: the output file holds what was
\* written, and exit(1) ends the program.
JackStep(e, phase) ==
    /\ compilationEngine' = e
    /\ vmOut' = [vmOut EXCEPT ![Len(vmOut)].lines = e.outputFile]
    /\ jackPhase' = IF e.exited THEN "failed" ELSE phase
    /\ UNCHANGED <<jackIn, jackEntry, asmVars, vmVars>>

\* JackCompiler.c 91-95: the argument is a file that is not a .jack file.
JackInvalidFileType ==
    /\ jackPhase = "start"
    /\ ~jackIn.directory
    /\ ~HasJackExtension(jackIn.entries[1].name)
    /\ jackPhase' = "failed"
    /\ UNCHANGED <<jackIn, jackEntry, compilationEngine, vmOut, asmVars, vmVars>>

\* JackCompiler.c 47-49: a directory entry that is not a .jack file.
JackSkipEntry ==
    /\ jackPhase = "start"
    /\ jackIn.directory
    /\ jackEntry <= Len(jackIn.entries)
    /\ ~HasJackExtension(jackIn.entries[jackEntry].name)
    /\ jackEntry' = jackEntry + 1
    /\ UNCHANGED <<jackIn, jackPhase, compilationEngine, vmOut, asmVars, vmVars>>

\* JackCompiler.c 50-78 and 97-118: the files are opened and
\* initCompilationEngine reads the first token, or fails: return 1.
JackOpen ==
    /\ jackPhase = "start"
    /\ jackEntry <= Len(jackIn.entries)
    /\ HasJackExtension(jackIn.entries[jackEntry].name)
    /\ LET e == initCompilationEngine(jackIn.entries[jackEntry].text, jackIn.overrun)
       IN  /\ compilationEngine' = IF e.jackTokenizer.hasMore THEN e ELSE NULL
           /\ jackPhase' = IF e.jackTokenizer.hasMore THEN "class" ELSE "failed"
    /\ vmOut' = Append(vmOut, [name |-> outputFileName(jackIn.entries[jackEntry].name),
                               lines |-> <<>>])
    /\ UNCHANGED <<jackIn, jackEntry, asmVars, vmVars>>

\* CompilationEngine.c 95-101
JackCompileClass ==
    /\ jackPhase = "class"
    /\ JackStep(compileClass(compilationEngine), "classVarDec")

\* CompilationEngine.c 103-105
JackClassVarDec ==
    /\ jackPhase = "classVarDec"
    /\ isClassVarDec(compilationEngine)
    /\ JackStep(parseClassVarDec(compilationEngine), "classVarDec")

\* CompilationEngine.c 107-109
JackSubroutine ==
    /\ \/ jackPhase = "classVarDec" /\ ~isClassVarDec(compilationEngine)
       \/ jackPhase = "subroutine"
    /\ isSubroutine(compilationEngine)
    /\ JackStep(parseSubroutine(compilationEngine), "subroutine")

\* CompilationEngine.c 111, then cleanupCompilationEngine and fclose; the next
\* entry of the directory, or return 0.
JackCloseClass ==
    /\ \/ jackPhase = "classVarDec" /\ ~isClassVarDec(compilationEngine)
       \/ jackPhase = "subroutine"
    /\ ~isSubroutine(compilationEngine)
    /\ LET e == requireSymbol(compilationEngine, "}")
       IN  /\ compilationEngine' = IF e.exited THEN e ELSE NULL
           /\ vmOut' = [vmOut EXCEPT ![Len(vmOut)].lines = e.outputFile]
           /\ jackPhase' = IF e.exited THEN "failed"
                           ELSE IF jackIn.directory THEN "start" ELSE "done"
           /\ jackEntry' = IF e.exited THEN jackEntry ELSE jackEntry + 1
    /\ UNCHANGED <<jackIn, asmVars, vmVars>>

\* JackCompiler.c 46, 86-87: readdir returns NULL; return 0.
JackCloseDirectory ==
    /\ jackPhase = "start"
    /\ jackIn.directory
    /\ jackEntry > Len(jackIn.entries)
    /\ jackPhase' = "done"
    /\ UNCHANGED <<jackIn, jackEntry, compilationEngine, vmOut, asmVars, vmVars>>

NextJack ==
    \/ JackInvalidFileType
    \/ JackSkipEntry
    \/ JackOpen
    \/ JackCompileClass
    \/ JackClassVarDec
    \/ JackSubroutine
    \/ JackCloseClass
    \/ JackCloseDirectory

SpecJack == InitJack /\ [][NextJack]_vars

(***************************************************************************)
(* The Jack compiler: what was written for the statement of main.          *)
(***************************************************************************)

\* The lines of Main.vm between the `function` line and the two lines of
\* `return;`.
StatementCode == SubSeq(vmOut[1].lines, 2, Len(vmOut[1].lines) - 2)

Compiled(shape) == jackPhase = "done" /\ jackIn.about.shape = shape

OperatorCommand(op) ==
    CASE op = "+" -> "add"
      [] op = "-" -> "sub"
      [] op = "*" -> "call Math.multiply 2"
      [] op = "/" -> "call Math.divide 2"
      [] op = "&" -> "and"
      [] op = "|" -> "or"
      [] op = "<" -> "lt"
      [] op = ">" -> "gt"
      [] op = "=" -> "eq"

\* The code of the terms k, k + 1, ... each followed by its operator's command.
RECURSIVE OperandsCode(_, _)
OperandsCode(ops, k) ==
    IF Len(ops) = 0 THEN <<>>
    ELSE <<"push constant " \o Dec(k), OperatorCommand(Head(ops))>>
             \o OperandsCode(Tail(ops), k + 1)

ExpressionCode(about) ==
    <<"push constant 1">>
        \o (CASE about.unary = "-" -> <<"neg">>
              [] about.unary = "~" -> <<"not">>
              [] OTHER -> <<>>)
        \o OperandsCode(about.ops, 2)

\* C8: for `let x = [-|~] 1 op 2 op 3 ...;` the compiler writes the code of
\* the first term (and `neg` or `not` after it when it is negated), then for
\* each operator, left to right, the code of its right-hand term followed by
\* the operator's own command, one command per operator, and then the pop
\* into x.
C8_ExpressionEmission ==
    Compiled("expression") =>
        StatementCode = ExpressionCode(jackIn.about) \o <<"pop local 0">>

\* The indexes of the `call` lines written for the statement.
CallLines == {i \in 1..Len(StatementCode) : snprintf(6, StatementCode[i]) = "call "}

\* The line ends with the number n.
EndsWith(line, n) ==
    /\ Len(line) > Len(Dec(n))
    /\ SubSeq(line, Len(line) - Len(Dec(n)), Len(line)) = " " \o Dec(n)

\* C9: for `do [receiver.]f(1, ..., n);` and `let x = [receiver.]f(1, ..., n);`
\* exactly one `call` is written; its argument count is n, plus 1 when the
\* receiver is implicit or a variable (p), and n when it is a class (Output);
\* for `f()` it is `call Main.f 1` right after `push pointer 0`; in a `do`
\* statement `pop temp 0` follows the call.
C9_SubroutineCallEmission ==
    Compiled("call") =>
        /\ Cardinality(CallLines) = 1
        /\ \A i \in CallLines :
              /\ EndsWith(StatementCode[i],
                          jackIn.about.nArgs
                              + (IF jackIn.about.receiver = "Output" THEN 0 ELSE 1))
              /\ jackIn.about.receiver = "" /\ jackIn.about.nArgs = 0 =>
                    /\ StatementCode[i] = "call Main.f 1"
                    /\ i > 1
                    /\ StatementCode[i - 1] = "push pointer 0"
              /\ jackIn.about.statement = "do" =>
                    /\ i < Len(StatementCode)
                    /\ StatementCode[i + 1] = "pop temp 0"

\* The code of the index of `let a[index] = value;`: i is at local 1.
IndexCode(index) ==
    IF index = "i" THEN "push local 1" ELSE "push constant " \o index

\* C10: for `let a[index] = value;` with a at local 0 and i at local 1 the
\* code of the statement begins with the push of a, the code of the index
\* and `add`, and, after the code of the value, ends with `pop temp 0`,
\* `pop pointer 1`, `push temp 0`, `pop that 0`; for `let a[i] = a[i]+1;`
\* it begins `push local 0`, `push local 1`, `add`.
C10_ArrayAssignment ==
    Compiled("array") =>
        /\ Len(StatementCode) > 7
        /\ SubSeq(StatementCode, 1, 3)
              = <<"push local 0", IndexCode(jackIn.about.index), "add">>
        /\ SubSeq(StatementCode, Len(StatementCode) - 3, Len(StatementCode))
              = <<"pop temp 0", "pop pointer 1", "push temp 0", "pop that 0">>

(***************************************************************************)
(* The Jack compiler: declarations and subroutine prologues.               *)
(***************************************************************************)

\* The subroutine of a declaration program has been compiled and the engine
\* still holds its tables.
Declared ==
    /\ jackIn.about.shape = "declaration"
    /\ jackPhase = "subroutine"

HasEntry(table, name, type, kind, index) ==
    \E j \in 1..Len(table) :
        table[j] = [name |-> name, type |-> type, kind |-> kind, index |-> index]

\* The pop of `let target = 1;` for a target that is the i-th name of its
\* declaration.
TargetPop(about, i) ==
    CASE about.target = "c" \o Dec(i) ->
             "pop " \o (IF about.classKind = "static" THEN "static" ELSE "this")
                 \o " " \o Dec(i - 1)
      [] about.target = "p" \o Dec(i) ->
             "pop argument " \o Dec(IF about.subroutine = "method" THEN i ELSE i - 1)
      [] about.target = "v" \o Dec(i) -> "pop local " \o Dec(i - 1)

\* C11: after `(static|field) boolean c1, ..., ck;` each ci is an entry of
\* the class table with type boolean, the declared kind and index i - 1; each
\* parameter `char pi` is an ARG entry and each name of `var int v1, ..., vk;`
\* a VAR entry with index i - 1 of the subroutine table; and `let n = 1;`
\* for any declared name n writes the pop into its segment and index.
C11_DeclarationsBind ==
    /\ Declared =>
          /\ \A i \in 1..jackIn.about.nClass :
                HasEntry(compilationEngine.classSymbolTable, "c" \o Dec(i), "boolean",
                         IF jackIn.about.classKind = "static" THEN STATIC ELSE FIELD, i - 1)
          /\ \A i \in 1..jackIn.about.nParams :
                \E j \in 1..Len(compilationEngine.subroutineSymbolTable) :
                    /\ compilationEngine.subroutineSymbolTable[j].name = "p" \o Dec(i)
                    /\ compilationEngine.subroutineSymbolTable[j].type = "char"
                    /\ compilationEngine.subroutineSymbolTable[j].kind = ARG
          /\ \A i \in 1..jackIn.about.nVars :
                HasEntry(compilationEngine.subroutineSymbolTable, "v" \o Dec(i), "int",
                         VAR, i - 1)
    /\ Compiled("declaration") /\ jackIn.about.target # "" =>
          \A i \in 1..MaxNames :
              jackIn.about.target \in {"c" \o Dec(i), "p" \o Dec(i), "v" \o Dec(i)} =>
                  /\ Len(StatementCode) > 0
                  /\ StatementCode[Len(StatementCode)] = TargetPop(jackIn.about, i)

\* C12: the three lines after the `function` line of a constructor are
\* `push constant nFields`, `call Memory.alloc 1`, `pop pointer 0`, nFields
\* the number of fields of the class.
C12_ConstructorPrologue ==
    Compiled("declaration") /\ jackIn.about.subroutine = "constructor" =>
        /\ Len(vmOut[1].lines) >= 4
        /\ SubSeq(vmOut[1].lines, 2, 4)
              = <<"push constant " \o Dec(IF jackIn.about.classKind = "field"
                                          THEN jackIn.about.nClass ELSE 0),
                  "call Memory.alloc 1", "pop pointer 0">>

\* The two lines after the `function` line are the prologue of a method.
MethodPrologue ==
    /\ Len(vmOut[1].lines) >= 3
    /\ SubSeq(vmOut[1].lines, 2, 3) = <<"push argument 0", "pop pointer 0">>

\* The first parameter is an ARG entry with the index.
FirstParameter(index) ==
    jackIn.about.nParams >= 1 =>
        \E j \in 1..Len(compilationEngine.subroutineSymbolTable) :
            /\ compilationEngine.subroutineSymbolTable[j].name = "p1"
            /\ compilationEngine.subroutineSymbolTable[j].kind = ARG
            /\ compilationEngine.subroutineSymbolTable[j].index = index

\* C13: the subroutine table of a method holds `this` of type Main as
\* argument 0 and its first parameter as argument 1, and `push argument 0`,
\* `pop pointer 0` follow its `function` line; the first parameter of a
\* function is argument 0 and no prologue follows its `function` line.
C13_MethodPrologue ==
    /\ Declared /\ jackIn.about.subroutine = "method" =>
          /\ HasEntry(compilationEngine.subroutineSymbolTable, "this", "Main", ARG, 0)
          /\ FirstParameter(1)
    /\ Compiled("declaration") /\ jackIn.about.subroutine = "method" => MethodPrologue
    /\ Declared /\ jackIn.about.subroutine = "function" => FirstParameter(0)
    /\ Compiled("declaration") /\ jackIn.about.subroutine = "function" => ~MethodPrologue

\* The code of SP = 256 followed by the code of `call Sys.init 0`, the first
\* call of the output.
Bootstrap ==
    <<"@256", "D=A", "@SP", "M=D">> \o writeCall(0, "Sys.init", 0)

BeginsWith(text, lines) ==
    /\ Len(lines) <= Len(text)
    /\ SubSeq(text, 1, Len(lines)) = lines

\* The first line of the file that holds a command.
FirstCommand(lines) ==
    LET held == {i \in 1..Len(lines) : removeWhitespaceVM(lines[i] \o "\n") # NULL}
    IN  removeWhitespaceVM(lines[CHOOSE i \in held : \A j \in held : i <= j] \o "\n")

\* The code of one command translated first, for the statics of the file.
FirstTranslation(command, file) ==
    LET type == getCommandTypeVM(command)
        arg1 == getArg1(command, type)
    IN  IF type = C_RETURN THEN writeReturn
        ELSE IF type = C_ARITHMETIC THEN writeArithmetic(arg1, 0, 0, 0)
        ELSE IF type = C_LABEL THEN writeLabel("", arg1)
        ELSE IF type = C_GOTO THEN writeGoto("", arg1)
        ELSE IF type = C_IF THEN writeIf("", arg1)
        ELSE IF type = C_FUNCTION THEN writeFunction(arg1, atoi(getArg2(command)))
        ELSE IF type = C_CALL THEN writeCall(0, arg1, atoi(getArg2(command)))
        ELSE writePushPop(type, arg1, getArg2(command), file)

\* C14: once a directory is opened the output begins with the code of SP = 256
\* and of call Sys.init 0, and it is the whole output when the first file of
\* the directory is reached; the output of a single file is empty or begins
\* with the code of the first command of the file.
C14_BootstrapOrdering ==
    /\ vmIn.mode = "dir" /\ vmPhase # "start" => BeginsWith(asmText, Bootstrap)
    /\ vmIn.mode = "dir" /\ vmPhase = "translate" /\ vmFile = 1 /\ vmLine = 0
          => asmText = Bootstrap
    /\ vmIn.mode = "file" /\ asmText # <<>>
          => BeginsWith(asmText, FirstTranslation(FirstCommand(vmIn.files[1].lines), curr))

\* A directory of two .vm files translated to the end, the code of the files
\* after the bootstrap code.
C14_Witness ==
    /\ vmIn.mode = "dir"
    /\ vmPhase = "run"
    /\ Len(asmText) > Len(Bootstrap)
    /\ \E i \in 1..Len(asmText) : asmText[i] = "(Main.twice)"

\* The file name without its directory path and without its extension.
Stem(name) ==
    LET slashes == {i \in 1..Len(name) : Ch(name, i) = "/"}
        from == IF slashes = {} THEN 1 ELSE 1 + CHOOSE i \in slashes : \A j \in slashes : j <= i
        dots == {i \in from..Len(name) : Ch(name, i) = "."}
        to == IF dots = {} THEN Len(name) ELSE (CHOOSE i \in dots : \A j \in dots : j <= i) - 1
    IN  SubSeq(name, from, to)

\* The command translated last, while its file is still the current one.
LastCommand ==
    removeWhitespaceVM(vmIn.files[vmFile].lines[vmLine - 1] \o "\n")

StaticTranslated ==
    /\ vmPhase = "translate"
    /\ vmFile <= Len(vmIn.files)
    /\ vmLine > 1
    /\ LastCommand # NULL
    /\ getCommandTypeVM(LastCommand) \in {C_PUSH, C_POP}
    /\ getArg1(LastCommand, getCommandTypeVM(LastCommand)) = "static"
    /\ getArg2(LastCommand) # NULL

\* C15: when push static i or pop static i of the file Stem.vm has been
\* translated, in either mode, the last A-instruction that names a static of
\* a file is @Stem.i.
C15_StaticNaming ==
    StaticTranslated =>
        \E k \in 1..Len(asmText) :
            /\ asmText[k] = "@" \o Stem(vmIn.files[vmFile].name) \o "." \o getArg2(LastCommand)
            /\ \A j \in (k + 1)..Len(asmText) : strchr(asmText[j], ".") = 0

\* The lines of the current file before the command translated last that
\* hold a function command.
FunctionsBefore ==
    {i \in 1..(vmLine - 2) :
        LET command == removeWhitespaceVM(vmIn.files[vmFile].lines[i] \o "\n")
        IN  IF command = NULL THEN FALSE ELSE getCommandTypeVM(command) = C_FUNCTION}

\* The name of the function command most recent in the current file.
EnclosingFunction ==
    LET last == CHOOSE i \in FunctionsBefore : \A j \in FunctionsBefore : j <= i
        command == removeWhitespaceVM(vmIn.files[vmFile].lines[last] \o "\n")
    IN  getArg1(command, C_FUNCTION)

BranchTranslated ==
    /\ vmPhase = "translate"
    /\ vmFile <= Len(vmIn.files)
    /\ vmLine > 1
    /\ LastCommand # NULL
    /\ getCommandTypeVM(LastCommand) \in {C_LABEL, C_GOTO, C_IF}
    /\ getArg1(LastCommand, getCommandTypeVM(LastCommand)) # NULL

\* The symbol in the code of the branching command translated last.
EmittedSymbol ==
    IF getCommandTypeVM(LastCommand) = C_LABEL
    THEN SubSeq(asmText[Len(asmText)], 2, Len(asmText[Len(asmText)]) - 1)
    ELSE Tail(asmText[Len(asmText) - 1])

\* C16: the symbol emitted for label, goto or if-goto lbl is f$lbl when a
\* function f command precedes it in its file, f the most recent one, and the
\* bare lbl when no function command precedes it in its file, whatever files
\* were translated before.
C16_LabelScoping ==
    BranchTranslated =>
        LET lbl == getArg1(LastCommand, getCommandTypeVM(LastCommand))
        IN  EmittedSymbol = IF FunctionsBefore = {} THEN lbl
                            ELSE EnclosingFunction \o "$" \o lbl

(***************************************************************************)
(* Claims about the assembler's errors                                     *)
(***************************************************************************)

\* The line of the source, trimmed as both passes trim it.
TrimmedLine(i) == removeWhitespaceAsm(asmIn[i] \o "\n")

\* The second pass has gone past line i, or the assembler returned 0.
Assembled(i) ==
    \/ asmPhase = "done"
    \/ asmPhase = "second" /\ asmLine > i

\* A C-instruction with a field that the tables of Code.h do not list.
UnknownMnemonic(line) ==
    /\ line # NULL
    /\ getCommandTypeAsm(line) = C_COMMAND
    /\ \/ getDest(line) \notin DestMnemonics
       \/ getComp(line) \notin CompMnemonics
       \/ getJump(line) \notin JumpMnemonics

\* C17: the assembler never gets past a C-instruction whose dest, comp or
\* jump is not in the tables: it writes no line for it and does not return 0.
C17_UnknownMnemonicRejected ==
    \A i \in 1..Len(asmIn) : UnknownMnemonic(TrimmedLine(i)) => ~Assembled(i)

RECURSIVE StripZeros(_)
StripZeros(s) ==
    IF s # "" /\ Head(s) = "0" THEN StripZeros(Tail(s)) ELSE s

\* The number written in the text is below 0 or above 32767.
OutOfRange(symbol) ==
    LET digits == StripZeros(IF Head(symbol) \in {"+", "-"} THEN Tail(symbol) ELSE symbol)
    IN  /\ digits # ""
        /\ \/ Head(symbol) = "-"
           \/ Len(digits) > 5
           \/ atoi(digits) > MaxAddress

NumericAddress(line) ==
    /\ line # NULL
    /\ getCommandTypeAsm(line) = A_COMMAND
    /\ isNumber(getSymbol(line))

\* C18: the assembler never gets past @n when the number n is outside
\* 0..32767: it writes no line for it and does not return 0.
C18_AddressRangeRejected ==
    \A i \in 1..Len(asmIn) :
        NumericAddress(TrimmedLine(i)) /\ OutOfRange(getSymbol(TrimmedLine(i)))
            => ~Assembled(i)

(***************************************************************************)
(* Claims about the VM translator's errors                                 *)
(***************************************************************************)

Segments == {"constant", "local", "argument", "this", "that", "temp", "pointer", "static"}

\* A command the translator cannot translate: an unknown command, a missing
\* argument, or a push or pop of a segment that does not exist.
Erroneous(command) ==
    LET type == getCommandTypeVM(command)
    IN  IF type = C_UNKNOWN THEN TRUE
        ELSE IF type = C_RETURN THEN FALSE
        ELSE IF getArg1(command, type) = NULL THEN TRUE
        ELSE IF type \in {C_FUNCTION, C_CALL} THEN getArg2(command) = NULL
        ELSE IF type \in {C_PUSH, C_POP}
             THEN \/ getArg2(command) = NULL
                  \/ getArg1(command, type) \notin Segments
                  \/ type = C_POP /\ getArg1(command, type) = "constant"
        ELSE FALSE

\* The translator has gone past line i of file f, or returned 0.
Translated(f, i) ==
    \/ vmPhase = "run"
    \/ /\ vmPhase = "translate"
       /\ vmFile > f \/ (vmFile = f /\ vmLine > i)

\* C19: the translator never gets past an erroneous command of a .vm file: it
\* translates nothing after it and does not return 0.
C19_ErrorsAreFatal ==
    \A f \in 1..Len(vmIn.files) :
        HasVmExtension(vmIn.files[f].name) =>
            \A i \in 1..Len(vmIn.files[f].lines) :
                LET command == removeWhitespaceVM(vmIn.files[f].lines[i] \o "\n")
                IN  (command # NULL /\ Erroneous(command)) => ~Translated(f, i)

\* C20: a file with a token that its production does not allow is never
\* compiled to the end, and nothing is written once the token is reached.
C20_FailFast ==
    jackIn.about.shape = "mismatch" =>
        /\ jackPhase # "done"
        /\ vmOut # <<>> => Len(vmOut[1].lines) <= jackIn.about.written

\* C21: a file in which the tokenizer meets an invalid character, an
\* unterminated string constant or an unterminated block comment is never
\* compiled to the end with return code 0.
C21_LexerFailure ==
    jackIn.about.shape = "lexer" => jackPhase # "done"

(***************************************************************************)
(* Claims about the assembler's output and symbol table                    *)
(***************************************************************************)

\* Sixteen characters, each '0' or '1'.
IsBinaryLine(line) ==
    /\ Len(line) = 16
    /\ \A k \in 1..16 : Ch(line, k) \in {"0", "1"}

\* The lines of the source up to line n that hold an A- or a C-instruction.
InstructionLines(n) ==
    {i \in 1..n : /\ TrimmedLine(i) # NULL
                  /\ getCommandTypeAsm(TrimmedLine(i)) \in {A_COMMAND, C_COMMAND}}

\* C22: every line written to the .hack file is 16 characters '0' or '1';
\* while the second pass runs there is one line for each A- or C-instruction
\* passed, and when the assembler returns 0 one for each of the source.
C22_BinaryFormat ==
    /\ \A k \in 1..Len(hackOut) : IsBinaryLine(hackOut[k])
    /\ asmPhase = "second" => Len(hackOut) = Cardinality(InstructionLines(asmLine - 1))
    /\ asmPhase = "done" => Len(hackOut) = Cardinality(InstructionLines(Len(asmIn)))

\* A source of a label line, an A-instruction and a C-instruction, assembled
\* to two lines.
C22_Witness ==
    /\ asmPhase = "done"
    /\ asmIn = <<"(LOOP)", "@LOOP", "D=A">>
    /\ Len(hackOut) = 2

\* The 23 predefined symbols of the Hack platform.
PlatformSymbols ==
    {<<"SP", 0>>, <<"LCL", 1>>, <<"ARG", 2>>, <<"THIS", 3>>, <<"THAT", 4>>,
     <<"SCREEN", 16384>>, <<"KBD", 24576>>}
        \cup {<<"R" \o Dec(n), n>> : n \in 0..15}

C23_PlatformSymbolsKept ==
    asmPhase \in {"first", "second"} \/ asmIn # <<>> =>
        \A p \in PlatformSymbols :
            contains(symbolTable, p[1]) /\ getAddress(symbolTable, p[1]) = p[2]

C23_BindingsKept ==
    \A i \in 1..Len(symbolTable) :
        /\ contains(symbolTable', symbolTable[i].name)
        /\ getAddress(symbolTable', symbolTable[i].name)
              = getAddress(symbolTable, symbolTable[i].name)

\* C23: a name of the symbol table keeps its address in every step of the
\* assembler, and the 23 predefined symbols are bound to their platform
\* addresses throughout, whatever labels and variables the program has.
C23_InsertOnly == [](C23_PlatformSymbolsKept) /\ [][C23_BindingsKept]_vars

\* A program that defines the label LOOP twice, at 0 and at 1: LOOP is bound
\* to 0 and the table has one entry more than the predefined ones.
C23_Witness ==
    /\ asmPhase = "done"
    /\ asmIn = <<"(LOOP)", "D=A", "(LOOP)">>
    /\ getAddress(symbolTable, "LOOP") = 0
    /\ Len(symbolTable) = 24

\* Line i is @sym for a symbol that is not a number, not predefined and not
\* a label of the program.
IsVariableLine(i) ==
    /\ TrimmedLine(i) # NULL
    /\ getCommandTypeAsm(TrimmedLine(i)) = A_COMMAND
    /\ ~isNumber(getSymbol(TrimmedLine(i)))
    /\ getSymbol(TrimmedLine(i)) \notin Predefined
    /\ \A j \in 1..Len(asmIn) : IsLabelLine(j) => LabelOf(j) # getSymbol(TrimmedLine(i))

\* Line i is the first reference to its variable.
IsFirstUse(i) ==
    /\ IsVariableLine(i)
    /\ \A j \in 1..(i - 1) :
          IsVariableLine(j) => getSymbol(TrimmedLine(j)) # getSymbol(TrimmedLine(i))

\* The number of distinct variables referenced in lines 1..i.
VariablesUpTo(i) == Cardinality({j \in 1..i : IsFirstUse(j)})

\* C24: in pass 2 the k-th distinct variable referenced is bound to
\* 16 + (k - 1), at its first reference and at every later one, and
\* ramAddress is 16 plus the number of distinct variables referenced so far.
C24_VariableAllocation ==
    asmPhase \in {"second", "done"} =>
        /\ ramAddress = 16 + VariablesUpTo(asmLine - 1)
        /\ \A i \in 1..(asmLine - 1) : \A j \in 1..i :
              (IsFirstUse(j) /\ IsVariableLine(i)
                  /\ getSymbol(TrimmedLine(i)) = getSymbol(TrimmedLine(j)))
                  => getAddress(symbolTable, getSymbol(TrimmedLine(i)))
                        = 16 + (VariablesUpTo(j) - 1)

\* @i, @j, @i assembled: i is 16, j is 17 and the next free address is 18.
C24_Witness ==
    /\ asmPhase = "done"
    /\ asmIn = <<"@i", "@j", "@i">>
    /\ getAddress(symbolTable, "i") = 16
    /\ getAddress(symbolTable, "j") = 17
    /\ ramAddress = 18

HasPrefix(line, prefix) ==
    /\ Len(prefix) <= Len(line)
    /\ SubSeq(line, 1, Len(prefix)) = prefix

\* The lines of the text that are the command `verb name`.
CommandLines(text, verb, name) ==
    {k \in 1..Len(text) : text[k] = verb \o " " \o name}

\* The name of `label name`, `goto name` or `if-goto name`.
TargetOf(line) ==
    IF HasPrefix(line, "if-goto ") THEN SubSeq(line, 9, Len(line))
    ELSE IF HasPrefix(line, "label ") THEN SubSeq(line, 7, Len(line))
    ELSE SubSeq(line, 6, Len(line))

\* The line of the function command that line k belongs to, 0 when none.
FunctionOf(text, k) ==
    LET before == {j \in 1..k : HasPrefix(text[j], "function ")}
    IN  IF before = {} THEN 0 ELSE CHOOSE j \in before : \A i \in before : i <= j

\* C25: in a compiled file no name has two label commands, and the name of
\* every goto and if-goto has exactly one label command, in the same function.
C25_LabelUniqueness ==
    (jackPhase = "done" /\ vmOut # <<>>) =>
        LET text == vmOut[1].lines
        IN  \A k \in 1..Len(text) :
                /\ HasPrefix(text[k], "label ")
                      => CommandLines(text, "label", TargetOf(text[k])) = {k}
                /\ (HasPrefix(text[k], "goto ") \/ HasPrefix(text[k], "if-goto "))
                      => \E j \in 1..Len(text) :
                            /\ CommandLines(text, "label", TargetOf(text[k])) = {j}
                            /\ FunctionOf(text, j) = FunctionOf(text, k)

\* Two statements with nested ones in f and one in g, compiled: at least
\* ten labels in the file and labels in both functions.
C25_Witness ==
    /\ jackPhase = "done"
    /\ jackIn.about.shape = "control"
    /\ jackIn.about.statements = 2
    /\ LET text == vmOut[1].lines
       IN  /\ Cardinality({k \in 1..Len(text) : HasPrefix(text[k], "label ")}) >= 10
           /\ \E k \in 1..Len(text) :
                 HasPrefix(text[k], "label ") /\ text[FunctionOf(text, k)] = "function Main.g 1"

(***************************************************************************)
(* Claims about the labels the VM translator generates                     *)
(***************************************************************************)

AllDigits(s) == s # "" /\ \A i \in 1..Len(s) : IsDigit(Ch(s, i))

\* RETURNn, EQn, EQDONEn, GTn, GTDONEn, LTn or LTDONEn.
HasCounter(name, prefix) ==
    /\ HasPrefix(name, prefix)
    /\ AllDigits(SubSeq(name, Len(prefix) + 1, Len(name)))

\* The distance in lines from the @ reference of a generated label to its
\* definition in the template of the command, 0 for another symbol.
DefinitionAfter(name) ==
    IF HasCounter(name, "RETURN") THEN 47
    ELSE IF \E p \in {"EQ", "GT", "LT"} : HasCounter(name, p) THEN 7
    ELSE IF \E p \in {"EQDONE", "GTDONE", "LTDONE"} : HasCounter(name, p) THEN 6
    ELSE 0

\* The translator has stopped, with return code 0 or 1.
VMStopped == vmPhase = "failed" \/ (vmPhase = "run" /\ cpuTicks = 0)

\* C26: in the output file no generated label is defined twice, and every
\* @ reference to one is followed, at the distance of its template, by its
\* definition.
C26_GeneratedLabelsUnique ==
    VMStopped =>
        \A k \in 1..Len(asmText) :
            /\ (Head(asmText[k]) = "(" /\ DefinitionAfter(SubSeq(asmText[k], 2, Len(asmText[k]) - 1)) > 0)
                  => \A j \in 1..Len(asmText) : asmText[j] = asmText[k] => j = k
            /\ (Head(asmText[k]) = "@" /\ DefinitionAfter(Tail(asmText[k])) > 0)
                  => /\ k + DefinitionAfter(Tail(asmText[k])) <= Len(asmText)
                     /\ asmText[k + DefinitionAfter(Tail(asmText[k]))]
                           = "(" \o Tail(asmText[k]) \o ")"

\* A directory whose two files hold calls and comparisons, translated: the
\* bootstrap and two calls took RETURN0..RETURN2 and two eq took EQ0 and EQ1.
C26_Witness ==
    /\ vmPhase = "run"
    /\ vmIn \in CounterCases
    /\ returnCounter = 3
    /\ eqCounter = 2
    /\ \E k \in 1..Len(asmText) : asmText[k] = "(RETURN2)"
    /\ \E k \in 1..Len(asmText) : asmText[k] = "(EQDONE1)"

\* The code of a subroutine `name` of class Main with n local variables and
\* the body `return;`.
HeaderCode(name, n) ==
    <<"function Main." \o name \o " " \o Dec(n), "push constant 0", "return">>

\* C27: for a class of two subroutines with var declarations and the body
\* `return;`, the output after the first subroutine is its function command
\* with the number of its var names, then the code of the return; the output
\* of the class is that and the same for the second subroutine, with the
\* number of var names of the second only.
C27_FunctionHeader ==
    jackIn.about.shape = "header" =>
        /\ jackPhase \notin {"failed"}
        /\ jackPhase = "subroutine" =>
              \/ vmOut[1].lines = HeaderCode("first", jackIn.about.first)
              \/ vmOut[1].lines = HeaderCode("first", jackIn.about.first)
                                     \o HeaderCode("second", jackIn.about.second)
        /\ jackPhase = "done" =>
              vmOut[1].lines = HeaderCode("first", jackIn.about.first)
                                  \o HeaderCode("second", jackIn.about.second)

\* Three names in two declarations in the first subroutine, none in the
\* second.
C27_Witness ==
    /\ jackPhase = "done"
    /\ jackIn.about.shape = "header"
    /\ jackIn.about.first = 3
    /\ jackIn.about.second = 0
    /\ vmOut[1].lines[1] = "function Main.first 3"
    /\ vmOut[1].lines[4] = "function Main.second 0"

(***************************************************************************)
(* Claims about the translator's output as input of the assembler          *)
(***************************************************************************)

\* convertComp finds the mnemonic in its table: it does not fall back to
\* COMP_NULL, which is also the code of D&A.
Recognized(comp) == comp # NULL /\ (convertComp(comp) # "0000000" \/ comp = "D&A")

\* C28: the comp of every C-instruction in the translator's output is one
\* that convertComp recognizes.
C28_MnemonicsRecognized ==
    \A k \in 1..Len(asmText) :
        Head(asmText[k]) \notin {"@", "("} => Recognized(getComp(asmText[k]))

\* The code of the two commands of a round trip has run to its end.
RoundTripDone ==
    /\ Halted
    /\ Len(vmIn.files) = 1
    /\ vmIn.files[1].name = "Trip.vm"

TripSegment == getArg1(TheCommand, getCommandTypeVM(TheCommand))

\* The cell of the two commands, in the memory the program started on.
TripCell == CellOf(TripSegment, atoi(getArg2(TheCommand)), vmIn.ram)

\* C29: after push seg i, pop seg i SP and the cell are as before; after
\* pop seg i, push seg i SP and the stack are as before and the cell holds
\* the word that was on top of the stack.
C29_PushPopRoundTrip ==
    RoundTripDone =>
        /\ Mem(ram, 0) = StartSP
        /\ getCommandTypeVM(TheCommand) = C_PUSH
              => Mem(ram, TripCell) = Mem(vmIn.ram, TripCell)
        /\ getCommandTypeVM(TheCommand) = C_POP
              => /\ \A a \in (StartSP - 2)..(StartSP - 1) : Mem(ram, a) = Mem(vmIn.ram, a)
                 /\ Mem(ram, TripCell) = Mem(vmIn.ram, StartSP - 1)

\* pop that 5, push that 5 on the second frame: RAM[32773] holds the 32768
\* that is again on top of the stack.
C29_Witness ==
    /\ RoundTripDone
    /\ vmIn.files[1].lines = <<"pop that 5", "push that 5">>
    /\ StartSP = 1002
    /\ Mem(ram, 32773) = 32768
    /\ Mem(ram, 1001) = 32768
    /\ Mem(ram, 0) = 1002

(***************************************************************************)
(* The Jack compiler: termination.  Every step of the compiler takes a     *)
(* measure down a well-founded order and no state before the end is        *)
(* without a step, so every run ends; inside a step, every iteration of a  *)
(* loop and every descent consumes input or ends the loops.                *)
(***************************************************************************)

JackStopped == jackPhase \in {"done", "failed"}

\* The characters of the file that fgetc has not returned yet.
Remaining(e) == Len(e.jackTokenizer.inputFile)

\* From e to r the program has ended, or every loop condition has become
\* false for good (hasMore is never set again), or input was consumed.
Consumed(e, r) == r.exited \/ ~r.jackTokenizer.hasMore \/ Remaining(r) < Remaining(e)

\* The engine of the open file, placed on the token that starts at the k-th
\* character of the text: every place a loop or a descent can be entered at.
EngineAt(k) ==
    LET text == jackIn.entries[jackEntry].text
    IN  [compilationEngine EXCEPT
            !.jackTokenizer = advance([@ EXCEPT !.inputFile = SubSeq(text, k, Len(text))])]

\* One iteration of the loop of parseStatements.
StatementIteration(e) ==
    CASE checkKeyword(e, "let") -> parseLet(e)
      [] checkKeyword(e, "if") -> parseIf(e)
      [] checkKeyword(e, "while") -> parseWhile(e)
      [] checkKeyword(e, "do") -> parseDo(e)
      [] checkKeyword(e, "return") -> parseReturn(e)

\* Every iteration of every loop of the parser, and every step that comes
\* before a descent into parseTerm, parseExpression or parseStatements from
\* inside one of them, entered at e.
IterationsConsume(e) ==
    /\ Consumed(e, next(e))
    /\ isClassVarDec(e) => Consumed(e, parseClassVarDec(e))
    /\ isSubroutine(e) => Consumed(e, parseSubroutine(e))
    /\ isVarDec(e) => Consumed(e, parseVarDec(e))
    /\ isStatement(e) => Consumed(e, StatementIteration(e))
    /\ isOp(e) => Consumed(e, parseTerm(next(e)))
    /\ checkSymbol(e, ",") => Consumed(e, parseExpression(requireSymbol(e, ",")))
    /\ checkSymbol(e, "(") => Consumed(e, requireSymbol(e, "("))
    /\ checkSymbol(e, "[") => Consumed(e, requireSymbol(e, "["))
    /\ checkSymbol(e, "{") => Consumed(e, requireSymbol(e, "{"))
    /\ isTerm(e) => Consumed(e, parseTerm(e))

\* The classes the iterations are entered on at every character: the
\* malformed ones and those with calls, arrays and nested statements.
LoopCases ==
    LexerCases \cup MismatchCases \cup JackCallCases \cup ArrayCases \cup JackOtherCases

LoopsConsume ==
    jackPhase = "class" /\ jackIn \in LoopCases =>
        \A k \in 1..(Len(jackIn.entries[jackEntry].text) + 1) : IterationsConsume(EngineAt(k))

\* The iteration of the loops of compileClass that is about to run.
ClassLoopsConsume ==
    /\ jackPhase = "classVarDec" /\ isClassVarDec(compilationEngine)
          => Consumed(compilationEngine, parseClassVarDec(compilationEngine))
    /\ jackPhase \in {"classVarDec", "subroutine"} /\ isSubroutine(compilationEngine)
          => Consumed(compilationEngine, parseSubroutine(compilationEngine))

\* A state before the end has a step to take.
JackNeverStuck ==
    /\ jackPhase \in {"start", "class", "classVarDec", "subroutine", "done", "failed"}
    /\ jackPhase = "start" =>
          \/ ~jackIn.directory /\ jackEntry = 1
          \/ jackIn.directory /\ jackEntry <= Len(jackIn.entries) + 1

\* What is left to do, in the lexicographic order: the entries not yet
\* closed, then the characters not yet read of the open file.
JackMeasure ==
    LET left == Len(jackIn.entries) + 1 - jackEntry
    IN  CASE JackStopped -> <<0, 0>>
          [] jackPhase = "start" -> <<left + 1, 1>>
          [] OTHER -> <<left, Remaining(compilationEngine) + 2>>

Less(m, n) == m[1] < n[1] \/ (m[1] = n[1] /\ m[2] < n[2])

JackStepDecreases == Less(JackMeasure', JackMeasure)

\* C30: the compiler stops on every input, returning or exiting with an
\* error: every step takes the measure down and no state before the end is
\* stuck; every iteration of a parser loop and every step before a
\* recursive descent consumes input or ends the loops or the program.
C30_Terminates ==
    /\ [](JackNeverStuck /\ ClassLoopsConsume /\ LoopsConsume)
    /\ [][JackStepDecreases]_jackVars

\* An unterminated string after the operator of a while condition has
\* stopped the compiler with an error.
C30_Witness ==
    /\ jackPhase = "failed"
    /\ vmOut # <<>>
    /\ vmOut[1].lines # <<>>
    /\ compilationEngine.exited
    /\ ~compilationEngine.jackTokenizer.hasMore
    /\ strstr(jackIn.entries[jackEntry].text, "while (1 + \"open") # 0

====
